---------------------------- MODULE Spec2Model ----------------------------
(***************************************************************************)
(* A model of the directory-protection hook (hooks/protect_directories.py) *)
(* and of the sub-agent tracker (hooks/subagent_tracker.py).               *)
(*                                                                         *)
(* Strings that the code takes apart (paths, glob patterns) are sequences  *)
(* of one-character strings, so that dirname, basename, split, startswith  *)
(* and the regular-expression matcher are computed as the code computes    *)
(* them.  Strings that the code only compares or prints (guides, tool      *)
(* names, agent types) are TLA+ strings.                                   *)
(***************************************************************************)
EXTENDS Integers, Sequences, FiniteSets, TLC

VARIABLES
    markers,          \* the marker files on disk: marker path -> content or Absent
    tracking,         \* {transcript_dir}/subagents/.agent_types.json
    pc,               \* the guard process: "idle", "loop" or "exited"
    hook_input,       \* the record the guard read from standard input
    cwd,              \* the guard's working directory
    paths_to_check,   \* main(): the candidate paths still to examine
    agent_state,      \* main(): the lazy agent-resolution cache
    stdout,           \* the records the guard wrote to standard output
    exit_code,        \* the guard's exit code (NoExit while it runs)
    m_pattern,        \* matcher harness: the glob pattern
    m_path,           \* matcher harness: the path
    m_result,         \* matcher harness: "unset", "match" or "nomatch"
    d_info,           \* decision harness: the protection_info under test
    d_path,           \* decision harness: the target path
    d_result,         \* decision harness: the block_result, or NoResult
    h_call,           \* function harness: the function applied and its arguments
    h_result,         \* function harness: what it returned, or Unset
    t_pc,             \* tracker processes: where each one is in its main()
    t_event,          \* tracker processes: the record each read from stdin
    t_current,        \* tracker processes: "current", the map read under the lock
    lock_owner,       \* the process holding flock on the .lock file, or NoProc
    t_exit,           \* tracker processes: exit code (NoExit while running)
    history           \* the events handed to tracker processes so far

guardVars  == <<markers, tracking, pc, hook_input, cwd, paths_to_check,
                agent_state, stdout, exit_code>>
matchVars  == <<m_pattern, m_path, m_result>>
decideVars == <<d_info, d_path, d_result>>
callVars   == <<h_call, h_result>>
trackerVars == <<t_pc, t_event, t_current, lock_owner, t_exit, history>>
harnessVars == <<matchVars, decideVars, callVars>>
vars       == <<guardVars, harnessVars, trackerVars>>

(***************************************************************************)
(* Characters and Python string primitives                                 *)
(***************************************************************************)
SLASH     == "/"
BACKSLASH == "\\"
DQUOTE    == "\""
NEWLINE   == "\n"

MaxOf(S) == CHOOSE x \in S : \A y \in S : y <= x
MinOf(S) == CHOOSE x \in S : \A y \in S : x <= y

\* str.find(c) + 1 and str.rfind(c) + 1 (0 when c does not occur)
Find(s, c) ==
    LET I == {i \in 1..Len(s) : s[i] = c} IN IF I = {} THEN 0 ELSE MinOf(I)
RFind(s, c) ==
    LET I == {i \in 1..Len(s) : s[i] = c} IN IF I = {} THEN 0 ELSE MaxOf(I)

\* str.rstrip(c), str.lstrip(c)
RStrip(s, c) ==
    LET I == {i \in 1..Len(s) : s[i] # c}
    IN  IF I = {} THEN <<>> ELSE SubSeq(s, 1, MaxOf(I))
LStrip(s, c) ==
    LET I == {i \in 1..Len(s) : s[i] # c}
    IN  IF I = {} THEN <<>> ELSE SubSeq(s, MinOf(I), Len(s))

\* str.startswith
StartsWith(s, prefix) ==
    Len(prefix) <= Len(s) /\ SubSeq(s, 1, Len(prefix)) = prefix

\* str.replace("\\", "/")
ReplaceBackslash(s) ==
    [i \in 1..Len(s) |-> IF s[i] = BACKSLASH THEN SLASH ELSE s[i]]

\* str.lower() on the characters of the model's alphabet
LowerChar(c) ==
    CASE c = "P" -> "p"
      [] c = "S" -> "s"
      [] c = "A" -> "a"
      [] OTHER   -> c
Lower(s) == [i \in 1..Len(s) |-> LowerChar(s[i])]

\* str.split("/")
RECURSIVE SplitSlash(_)
SplitSlash(s) ==
    LET i == Find(s, SLASH)
    IN  IF i = 0 THEN <<s>>
        ELSE <<SubSeq(s, 1, i - 1)>> \o SplitSlash(SubSeq(s, i + 1, Len(s)))

\* "/".join(segments)
RECURSIVE JoinSlash(_)
JoinSlash(segs) ==
    IF segs = <<>> THEN <<>>
    ELSE IF Len(segs) = 1 THEN segs[1]
    ELSE segs[1] \o <<SLASH>> \o JoinSlash(Tail(segs))

\* the spelling of a string inside the JSON text
RECURSIVE JsonEscape(_)
JsonEscape(str) ==
    IF str = <<>> THEN <<>>
    ELSE (CASE Head(str) = DQUOTE    -> <<BACKSLASH, DQUOTE>>
            [] Head(str) = BACKSLASH -> <<BACKSLASH, BACKSLASH>>
            [] Head(str) = NEWLINE   -> <<BACKSLASH, "n">>
            [] OTHER                 -> <<Head(str)>>)
         \o JsonEscape(Tail(str))

(***************************************************************************)
(* posixpath                                                               *)
(***************************************************************************)
AllSlashes(s) == \A i \in 1..Len(s) : s[i] = SLASH

dirname(p) ==
    LET head == SubSeq(p, 1, RFind(p, SLASH))
    IN  IF head # <<>> /\ ~AllSlashes(head) THEN RStrip(head, SLASH) ELSE head

basename(p) == SubSeq(p, RFind(p, SLASH) + 1, Len(p))

isabs(p) == StartsWith(p, <<SLASH>>)

path_join(a, b) ==
    IF isabs(b) THEN b
    ELSE IF a = <<>> \/ a[Len(a)] = SLASH THEN a \o b
    ELSE a \o <<SLASH>> \o b

(***************************************************************************)
(* The pattern compiler: convert_wildcard_to_regex.  The regular           *)
(* expression is a sequence of atoms between the anchors ^ and $:          *)
(*   [t |-> "optdir"]    (.*/)?          [t |-> "dotstar"]  .*             *)
(*   [t |-> "nonslash"]  [^/]*           [t |-> "dot"]      .              *)
(*   [t |-> "lit", c |-> ch]   the character ch (escaped when special)     *)
(***************************************************************************)
Atom(t)  == [t |-> t, c |-> ""]
Lit(ch)  == [t |-> "lit", c |-> ch]

CharAt(s, i) == IF i <= Len(s) THEN s[i] ELSE ""

RECURSIVE ConvertFrom(_, _, _)
ConvertFrom(pattern, i, at_start) ==
    IF i > Len(pattern) THEN <<>>
    ELSE
      LET char       == pattern[i]
          next_char  == CharAt(pattern, i + 1)
          next2_char == CharAt(pattern, i + 2)
      IN  IF char = "*" THEN
            IF next_char = "*" THEN
              IF at_start /\ next2_char = SLASH
                THEN <<Atom("optdir")>> \o ConvertFrom(pattern, i + 3, FALSE)
                ELSE <<Atom("dotstar")>> \o ConvertFrom(pattern, i + 2, FALSE)
            ELSE <<Atom("nonslash")>> \o ConvertFrom(pattern, i + 1, FALSE)
          ELSE IF char = "?" THEN
            <<Atom("dot")>> \o ConvertFrom(pattern, i + 1, FALSE)
          ELSE IF char = SLASH THEN
            \* after a "/" at_start is not reset
            <<Lit(SLASH)>> \o ConvertFrom(pattern, i + 1, at_start)
          ELSE
            <<Lit(char)>> \o ConvertFrom(pattern, i + 1, FALSE)

convert_wildcard_to_regex(pattern) ==
    ConvertFrom(ReplaceBackslash(pattern), 1, TRUE)

(***************************************************************************)
(* re.match(regex, s) for the regular expressions above, without flags:    *)
(* "." matches any character but a newline, [^/] any character but "/",    *)
(* and the closing "$" matches at the end of s and also just before a      *)
(* newline that ends s.                                                    *)
(***************************************************************************)
NoNewline(s, from, to) == \A m \in from..to : s[m] # NEWLINE
NoSlash(s, from, to)   == \A m \in from..to : s[m] # SLASH

DollarMatches(s, j) ==
    \/ j = Len(s) + 1
    \/ j = Len(s) /\ s[j] = NEWLINE

RECURSIVE ReMatchFrom(_, _, _, _)
ReMatchFrom(regex, i, s, j) ==
    IF i > Len(regex) THEN DollarMatches(s, j)
    ELSE
      LET a == regex[i] IN
      CASE a.t = "lit" ->
             j <= Len(s) /\ s[j] = a.c /\ ReMatchFrom(regex, i + 1, s, j + 1)
        [] a.t = "dot" ->
             j <= Len(s) /\ s[j] # NEWLINE /\ ReMatchFrom(regex, i + 1, s, j + 1)
        [] a.t = "dotstar" ->
             \E k \in j..(Len(s) + 1) :
                 NoNewline(s, j, k - 1) /\ ReMatchFrom(regex, i + 1, s, k)
        [] a.t = "nonslash" ->
             \E k \in j..(Len(s) + 1) :
                 NoSlash(s, j, k - 1) /\ ReMatchFrom(regex, i + 1, s, k)
        [] a.t = "optdir" ->
             \/ ReMatchFrom(regex, i + 1, s, j)
             \/ \E k \in j..Len(s) :
                    /\ NoNewline(s, j, k - 1)
                    /\ s[k] = SLASH
                    /\ ReMatchFrom(regex, i + 1, s, k + 1)

re_match(regex, s) == ReMatchFrom(regex, 1, s, 1)

\* test_path_matches_pattern(path, pattern, base_path)
test_path_matches_pattern(path, pattern, base_path) ==
    LET p        == ReplaceBackslash(path)
        base     == RStrip(ReplaceBackslash(base_path), SLASH)
        relative == IF StartsWith(Lower(p), Lower(base))
                      THEN LStrip(SubSeq(p, Len(base) + 1, Len(p)), SLASH)
                      ELSE p
    IN  re_match(convert_wildcard_to_regex(pattern), relative)

(***************************************************************************)
(* The file system.  The tree holds the directories Dirs; the only files   *)
(* the guard ever opens under it are marker files, so a file is a marker   *)
(* slot whose content is not Absent.                                       *)
(***************************************************************************)
MARKER_FILE_NAME       == <<".", "b", "l", "o", "c", "k">>
LOCAL_MARKER_FILE_NAME == MARKER_FILE_NAME \o <<".", "l", "o", "c", "a", "l">>

DirRoot == <<"/">>
DirP    == <<"/", "p">>
DirPS   == <<"/", "p", "/", "s">>
DirQ    == <<"/", "q", "\"">>
Dirs    == {DirRoot, DirP, DirPS, DirQ}

MainSlot(d)  == path_join(d, MARKER_FILE_NAME)
LocalSlot(d) == path_join(d, LOCAL_MARKER_FILE_NAME)
MarkerSlots  == {MainSlot(DirP), LocalSlot(DirP), MainSlot(DirPS),
                 MainSlot(DirQ), LocalSlot(DirQ)}

Absent == [kind |-> "absent"]

\* Path resolution as the kernel does it: every component that is walked
\* through must be an existing directory.  NoEnt is the failure.
NoEnt == <<>>
Child(d, seg) == IF d = DirRoot THEN d \o seg ELSE d \o <<SLASH>> \o seg

RECURSIVE Walk(_, _)
Walk(cur, segs) ==
    IF segs = <<>> \/ cur = NoEnt THEN cur
    ELSE IF cur \notin Dirs THEN NoEnt
    ELSE LET seg == Head(segs) IN
         IF seg = <<>> \/ seg = <<".">> THEN Walk(cur, Tail(segs))
         ELSE IF seg = <<".", ".">> THEN Walk(dirname(cur), Tail(segs))
         ELSE Walk(Child(cur, seg), Tail(segs))

realpath(p) ==
    IF p = <<>> THEN NoEnt
    ELSE Walk(IF isabs(p) THEN DirRoot ELSE cwd, SplitSlash(p))

isfile(p) ==
    LET r == realpath(p) IN r \in MarkerSlots /\ markers[r] # Absent
isdir(p)  == realpath(p) \in Dirs
exists(p) == isfile(p) \/ isdir(p)

(***************************************************************************)
(* Marker-file contents.  A file is empty text, text that is not JSON, or  *)
(* a JSON object; of an object the model keeps the keys the parser reads.  *)
(* A list entry is a bare string or an object with the keys pattern and    *)
(* guide (entry.get reads both with the empty string as default).          *)
(***************************************************************************)
EmptyText   == [kind |-> "empty"]
InvalidText == [kind |-> "invalid"]
\* text that json.loads accepts and that is no object: [1], "abc", 5, null
ValueText   == [kind |-> "value"]
Obj == [kind |-> "object", guide |-> "",
        has_allowed |-> FALSE, allowed |-> <<>>,
        has_blocked |-> FALSE, blocked |-> <<>>,
        has_agents |-> FALSE, agents_is_list |-> FALSE, agents |-> <<>>,
        has_dma |-> FALSE, dma_is_bool |-> FALSE, dma |-> FALSE]

StrEntry(p)     == [kind |-> "str", pattern |-> p, guide |-> ""]
DictEntry(p, g) == [kind |-> "dict", pattern |-> p, guide |-> g]

(***************************************************************************)
(* Policies: the config dict of the code.  agents = None is the empty      *)
(* sequence with has_agents_key = FALSE (the code reads agents only under  *)
(* has_agents_key).                                                        *)
(***************************************************************************)
create_empty_config ==
    [allowed |-> <<>>, blocked |-> <<>>, guide |-> "", is_empty |-> TRUE,
     has_error |-> FALSE, error_message |-> "",
     has_allowed_key |-> FALSE, has_blocked_key |-> FALSE,
     allow_all |-> FALSE, agents |-> <<>>, disable_main_agent |-> FALSE,
     has_agents_key |-> FALSE, has_disable_main_agent_key |-> FALSE]

ERR_BOTH_KEYS ==
    "Invalid .block: cannot specify both allowed and blocked lists"
ERR_MIX_LOCAL ==
    "Invalid configuration: .block and .block.local cannot mix allowed and blocked modes"
ERR_MIX_HIERARCHY ==
    "Invalid configuration: parent and child .block files cannot mix allowed and blocked modes"

\* get_lock_file_config, on the content of the file at marker_path
ParseContent(content) ==
    IF content.kind # "object" THEN create_empty_config
    ELSE
      LET c0 == [create_empty_config EXCEPT !.guide = content.guide] IN
      IF content.has_allowed /\ content.has_blocked
        THEN [c0 EXCEPT !.has_error = TRUE, !.error_message = ERR_BOTH_KEYS]
        ELSE
          LET c1 == IF content.has_allowed
                      THEN [c0 EXCEPT !.allowed = content.allowed,
                                      !.has_allowed_key = TRUE,
                                      !.is_empty = FALSE]
                      ELSE c0
              c2 == IF content.has_blocked
                      THEN [c1 EXCEPT !.blocked = content.blocked,
                                      !.has_blocked_key = TRUE,
                                      !.is_empty = FALSE]
                      ELSE c1
              c3 == IF content.has_agents /\ content.agents_is_list
                      THEN [c2 EXCEPT !.agents = content.agents,
                                      !.has_agents_key = TRUE]
                      ELSE c2
          IN  IF content.has_dma /\ content.dma_is_bool
                THEN [c3 EXCEPT !.disable_main_agent = content.dma,
                                !.has_disable_main_agent_key = TRUE]
                ELSE c3

get_lock_file_config(marker_path) ==
    IF ~isfile(marker_path) THEN create_empty_config
    ELSE ParseContent(markers[realpath(marker_path)])

\* line 199: data.get("guide", "") on a value that is no object raises
\* AttributeError, which nothing catches
lock_file_config_raises(marker_path) ==
    isfile(marker_path) /\ markers[realpath(marker_path)] = ValueText

\* one of the two marker files of the directory makes the parser raise
dir_config_raises(directory) ==
    \/ lock_file_config_raises(path_join(directory, MARKER_FILE_NAME))
    \/ lock_file_config_raises(path_join(directory, LOCAL_MARKER_FILE_NAME))

\* the agent fields of the primary side alone, the fallback never consulted
merge_agent_fields_primary_only(primary, fallback) ==
    [agents |-> IF primary.has_agents_key THEN primary.agents ELSE <<>>,
     has_agents_key |-> primary.has_agents_key,
     disable_main_agent |-> primary.has_disable_main_agent_key
                               /\ primary.disable_main_agent,
     has_disable_main_agent_key |-> primary.has_disable_main_agent_key]

\* _merge_agent_fields: the keyword arguments handed to _create_empty_config
merge_agent_fields(primary, fallback) ==
    LET a == IF primary.has_agents_key
               THEN [agents |-> primary.agents, has_agents_key |-> TRUE]
             ELSE IF fallback.has_agents_key
               THEN [agents |-> fallback.agents, has_agents_key |-> TRUE]
             ELSE [agents |-> <<>>, has_agents_key |-> FALSE]
        d == IF primary.has_disable_main_agent_key
               THEN [dma |-> primary.disable_main_agent, has |-> TRUE]
             ELSE IF fallback.has_disable_main_agent_key
               THEN [dma |-> fallback.disable_main_agent, has |-> TRUE]
             ELSE [dma |-> FALSE, has |-> FALSE]
    IN  [agents |-> a.agents, has_agents_key |-> a.has_agents_key,
         disable_main_agent |-> d.dma, has_disable_main_agent_key |-> d.has]

WithAgentFields(config, af) ==
    [config EXCEPT !.agents = af.agents,
                   !.has_agents_key = af.has_agents_key,
                   !.disable_main_agent = af.disable_main_agent,
                   !.has_disable_main_agent_key = af.has_disable_main_agent_key]

\* a guide of the model, character by character
GuideChars(g) ==
    CASE g = ""   -> <<>>
      [] g = "G"  -> <<"G">>
      [] g = "GE" -> <<"G", "E">>
      [] g = "GT" -> <<"G", "T">>

Quoted(str) == <<DQUOTE>> \o JsonEscape(str) \o <<DQUOTE>>

\* json.dumps(item, sort_keys=True) of an object entry
\*   {"guide": "..", "pattern": ".."}
json_dumps(item) ==
    <<"{">> \o Quoted(<<"g", "u", "i", "d", "e">>) \o <<":", " ">>
        \o Quoted(GuideChars(item.guide)) \o <<",", " ">>
        \o Quoted(<<"p", "a", "t", "t", "e", "r", "n">>) \o <<":", " ">>
        \o Quoted(item.pattern) \o <<"}">>

\* the key under which the "seen" loop remembers an entry: the JSON text of
\* an object, and a bare string itself
seen_key(item) ==
    IF item.kind = "dict" THEN json_dumps(item) ELSE item.pattern

\* the "seen" loop of both mergers: keep the first entry of each key
RECURSIVE Dedup(_, _)
Dedup(items, seen) ==
    IF items = <<>> THEN <<>>
    ELSE IF seen_key(Head(items)) \in seen THEN Dedup(Tail(items), seen)
    ELSE <<Head(items)>>
             \o Dedup(Tail(items), seen \cup {seen_key(Head(items))})

BlockListConfig(blocked, guide, af) ==
    WithAgentFields([create_empty_config EXCEPT !.blocked = blocked,
                        !.guide = guide, !.is_empty = FALSE,
                        !.has_blocked_key = TRUE], af)
\* an allowed list that is dropped by the merger: the result is BlockAll
AllowListConfigDropped(allowed, guide, af) ==
    WithAgentFields([create_empty_config EXCEPT !.guide = guide], af)
AllowListConfig(allowed, guide, af) ==
    WithAgentFields([create_empty_config EXCEPT !.allowed = allowed,
                        !.guide = guide, !.is_empty = FALSE,
                        !.has_allowed_key = TRUE], af)
BlockAllConfig(guide, af) ==
    WithAgentFields([create_empty_config EXCEPT !.guide = guide], af)
\* an error policy that does not raise has_error: mixing resolves silently
ErrorConfigSilent(msg) ==
    [create_empty_config EXCEPT !.is_empty = FALSE, !.error_message = msg]

ErrorConfig(msg) ==
    [create_empty_config EXCEPT !.is_empty = FALSE, !.has_error = TRUE,
                                !.error_message = msg]

(***************************************************************************)
(* merge_configs: .block and .block.local of one directory                 *)
(***************************************************************************)
None == [none |-> TRUE]

merge_configs(main_config, local_config) ==
    IF local_config = None THEN main_config
    ELSE IF main_config.has_error THEN main_config
    ELSE IF local_config.has_error THEN local_config
    ELSE
      LET agent_fields == merge_agent_fields(local_config, main_config)
          merged_guide == IF local_config.guide # "" THEN local_config.guide
                          ELSE main_config.guide
      IN  IF main_config.is_empty \/ local_config.is_empty
            THEN BlockAllConfig(merged_guide, agent_fields)
          ELSE IF \/ main_config.has_allowed_key /\ local_config.has_blocked_key
                  \/ main_config.has_blocked_key /\ local_config.has_allowed_key
            THEN ErrorConfig(ERR_MIX_LOCAL)
          ELSE IF main_config.has_blocked_key \/ local_config.has_blocked_key
            THEN BlockListConfig(
                     Dedup(main_config.blocked \o local_config.blocked, {}),
                     merged_guide, agent_fields)
          ELSE IF main_config.has_allowed_key \/ local_config.has_allowed_key
            THEN AllowListConfig(
                     IF local_config.has_allowed_key THEN local_config.allowed
                     ELSE main_config.allowed,
                     merged_guide, agent_fields)
          ELSE BlockAllConfig(merged_guide, agent_fields)

(***************************************************************************)
(* _merge_hierarchical_configs: a closer directory over a farther one      *)
(***************************************************************************)
merge_hierarchical_configs(child_config, parent_config) ==
    IF child_config.has_error THEN child_config
    ELSE IF parent_config.has_error THEN parent_config
    ELSE
      LET agent_fields == merge_agent_fields(child_config, parent_config)
          merged_guide == IF child_config.guide # "" THEN child_config.guide
                          ELSE parent_config.guide
      IN  IF child_config.is_empty
            THEN BlockAllConfig(merged_guide, agent_fields)
          ELSE IF child_config.has_allowed_key
            THEN AllowListConfig(child_config.allowed, merged_guide,
                                 agent_fields)
          ELSE IF child_config.has_blocked_key
            THEN IF parent_config.is_empty
                   THEN BlockListConfig(child_config.blocked, merged_guide,
                                        agent_fields)
                 ELSE IF parent_config.has_allowed_key
                   THEN ErrorConfig(ERR_MIX_HIERARCHY)
                 ELSE IF parent_config.has_blocked_key
                   THEN BlockListConfig(
                            Dedup(child_config.blocked \o parent_config.blocked,
                                  {}),
                            merged_guide, agent_fields)
                 ELSE BlockListConfig(child_config.blocked, merged_guide,
                                      agent_fields)
          ELSE IF parent_config.has_allowed_key
            THEN AllowListConfig(parent_config.allowed, merged_guide,
                                 agent_fields)
          ELSE IF parent_config.has_blocked_key
            THEN BlockListConfig(parent_config.blocked, merged_guide,
                                 agent_fields)
          ELSE BlockAllConfig(merged_guide, agent_fields)

(***************************************************************************)
(* test_directory_protected: the policy resolver                           *)
(***************************************************************************)
\* get_full_path without its isabs test: every path is taken relative to
\* the working directory
get_full_path_always_joins(path) == path_join(cwd, LStrip(path, SLASH))

get_full_path(path) == IF isabs(path) THEN path ELSE path_join(cwd, path)

\* the directories the walk visits, closest first
RECURSIVE WalkUp(_)
WalkUp(current_dir) ==
    IF current_dir = <<>> THEN <<>>
    ELSE IF dirname(current_dir) = current_dir THEN <<current_dir>>
    ELSE <<current_dir>> \o WalkUp(dirname(current_dir))

\* a marker_path description: the file named, and whether " (+ .local)"
\* follows it
MarkerDesc(path, plus_local) == [path |-> path, plus_local |-> plus_local]

\* the body of the walk for one directory (also get_merged_dir_config),
\* once the two marker files have been probed
merged_dir_config(directory, main_marker, local_marker, has_main, has_local) ==
    IF ~has_main /\ ~has_local THEN None
    ELSE [config |->
              merge_configs(
                  IF has_main THEN get_lock_file_config(main_marker)
                  ELSE create_empty_config,
                  IF has_local THEN get_lock_file_config(local_marker)
                  ELSE None),
          marker_path |->
              IF has_main THEN MarkerDesc(main_marker, has_local)
              ELSE MarkerDesc(local_marker, FALSE),
          marker_directory |-> directory]

probe_markers(directory, main_marker, local_marker) ==
    merged_dir_config(directory, main_marker, local_marker,
                      isfile(main_marker), isfile(local_marker))

get_merged_dir_config(directory) ==
    probe_markers(directory, path_join(directory, MARKER_FILE_NAME),
                  path_join(directory, LOCAL_MARKER_FILE_NAME))

\* configs_with_dirs.append, for a directory that has a marker file
ListOf(entry) == IF entry = None THEN <<>> ELSE <<entry>>

RECURSIVE CollectConfigs(_)
CollectConfigs(dirs) ==
    IF dirs = <<>> THEN <<>>
    ELSE ListOf(get_merged_dir_config(Head(dirs)))
             \o CollectConfigs(Tail(dirs))

RECURSIVE FoldHierarchy(_, _)
FoldHierarchy(final_config, parents) ==
    IF parents = <<>> THEN final_config
    ELSE FoldHierarchy(
             merge_hierarchical_configs(final_config, Head(parents).config),
             Tail(parents))

\* lines 646-668: the collected configurations are merged, closest first
merge_collected(file_path, configs_with_dirs) ==
    IF configs_with_dirs = <<>> THEN None
    ELSE [target_file |-> file_path,
          marker_path |->
              [i \in DOMAIN configs_with_dirs |->
                  configs_with_dirs[i].marker_path],
          marker_directory |-> configs_with_dirs[1].marker_directory,
          config |-> FoldHierarchy(configs_with_dirs[1].config,
                                   Tail(configs_with_dirs))]

\* lines 599-644: the walk from the directory of the file to the root
walk_directories(file_path, directory) ==
    IF directory = <<>> THEN None
    ELSE merge_collected(file_path, CollectConfigs(WalkUp(directory)))

\* the walk started whatever the segments of the path are
protected_normalized_unchecked(file_path) ==
    walk_directories(file_path, dirname(file_path))

\* lines 596-599: a normalized path with a ".." segment has no policy
protected_normalized(file_path) ==
    IF \E i \in DOMAIN SplitSlash(file_path) :
           SplitSlash(file_path)[i] = <<".", ".">>
      THEN None
      ELSE walk_directories(file_path, dirname(file_path))

test_directory_protected(path) ==
    IF path = <<>> THEN None
    ELSE protected_normalized(ReplaceBackslash(get_full_path(path)))

(***************************************************************************)
(* Agent scoping                                                           *)
(***************************************************************************)
\* agent_type = None (the main agent)
MAIN_AGENT == "<None>"

\* the tool_use_ids that occur in {transcript_dir}/subagents/{agent_id}.jsonl
SubagentTranscript(agent_id) ==
    CASE agent_id = "a1" -> {"t1"}
      [] agent_id = "a2" -> {"t1", "t2"}
      [] OTHER -> {}

config_has_agent_rules(config) ==
    config.has_agents_key \/ config.has_disable_main_agent_key

tool_use_id_in_transcript(agent_id, tool_use_id) ==
    tool_use_id \in SubagentTranscript(agent_id)

\* the search that goes on after the first hit: the last hit is returned
resolve_agent_type_last_hit(data) ==
    IF data.tool_use_id = "" \/ data.transcript_path = "" THEN MAIN_AGENT
    ELSE IF ~tracking.exists THEN MAIN_AGENT
    ELSE IF tracking.agent_map = <<>> THEN MAIN_AGENT
    ELSE
      LET hits == {i \in DOMAIN tracking.agent_map :
                     tool_use_id_in_transcript(tracking.agent_map[i].agent_id,
                                               data.tool_use_id)}
      IN  IF hits = {} THEN MAIN_AGENT
          ELSE tracking.agent_map[MaxOf(hits)].agent_type

resolve_agent_type(data) ==
    IF data.tool_use_id = "" \/ data.transcript_path = "" THEN MAIN_AGENT
    ELSE IF ~tracking.exists THEN MAIN_AGENT
    ELSE IF tracking.agent_map = <<>> THEN MAIN_AGENT
    ELSE
      LET hits == {i \in DOMAIN tracking.agent_map :
                     tool_use_id_in_transcript(tracking.agent_map[i].agent_id,
                                               data.tool_use_id)}
      IN  IF hits = {} THEN MAIN_AGENT
          ELSE tracking.agent_map[MinOf(hits)].agent_type

\* the filter without the rule that an agents key exempts the main agent
should_apply_main_ignores_agents(config, agent_type) ==
    IF ~config.has_agents_key /\ ~config.has_disable_main_agent_key THEN TRUE
    ELSE IF agent_type = MAIN_AGENT
      THEN ~(config.has_disable_main_agent_key /\ config.disable_main_agent)
    ELSE IF config.has_agents_key
      THEN \E i \in DOMAIN config.agents : config.agents[i] = agent_type
    ELSE TRUE

should_apply_to_agent(config, agent_type) ==
    IF ~config.has_agents_key /\ ~config.has_disable_main_agent_key THEN TRUE
    ELSE IF agent_type = MAIN_AGENT
      THEN IF config.has_agents_key THEN FALSE
           ELSE ~(config.has_disable_main_agent_key /\ config.disable_main_agent)
    ELSE IF config.has_agents_key
      THEN \E i \in DOMAIN config.agents : config.agents[i] = agent_type
    ELSE TRUE

\* _agent_exempt: the cache after the call, and the value returned
AgentStateAfter(config, data, state) ==
    IF ~config_has_agent_rules(config) \/ state.resolved THEN state
    ELSE [resolved |-> TRUE, type |-> resolve_agent_type(data)]

agent_exempt(config, data, state) ==
    /\ config_has_agent_rules(config)
    /\ ~should_apply_to_agent(config, AgentStateAfter(config, data, state).type)

(***************************************************************************)
(* test_should_block: the decision engine                                  *)
(***************************************************************************)
REASON_FULL    == "This directory tree is protected from Claude edits (full protection)."
REASON_ALLOWED == "Path is not in the allowed list."
REASON_BLOCKED == "Path matches blocked pattern: "
REASON_TREE    == "This directory tree is protected from Claude edits."

BlockResult(should_block, reason, pattern, is_config_error, guide) ==
    [should_block |-> should_block, reason |-> reason, pattern |-> pattern,
     is_config_error |-> is_config_error, guide |-> guide]
AllowResult == BlockResult(FALSE, "", <<>>, FALSE, "")

\* the loop over the entries cut short after its first iteration
FirstMatchHeadOnly(entries, file_path, marker_dir) ==
    IF entries # <<>>
       /\ test_path_matches_pattern(file_path, entries[1].pattern, marker_dir)
      THEN 1 ELSE 0

\* the loop over the entries without its early return: the last match wins
FirstMatchLast(entries, file_path, marker_dir) ==
    LET hits == {i \in DOMAIN entries :
                   test_path_matches_pattern(file_path, entries[i].pattern,
                                             marker_dir)}
    IN  IF hits = {} THEN 0 ELSE MaxOf(hits)

\* the index of the first entry whose pattern matches, 0 when none does
FirstMatch(entries, file_path, marker_dir) ==
    LET hits == {i \in DOMAIN entries :
                   test_path_matches_pattern(file_path, entries[i].pattern,
                                             marker_dir)}
    IN  IF hits = {} THEN 0 ELSE MinOf(hits)

test_should_block(file_path, protection_info) ==
    LET config     == protection_info.config
        marker_dir == protection_info.marker_directory
        guide      == config.guide
    IN  IF config.has_error
          THEN BlockResult(TRUE, config.error_message, <<>>, TRUE, "")
        ELSE IF config.is_empty
          THEN BlockResult(TRUE, REASON_FULL, <<>>, FALSE, guide)
        ELSE IF config.allow_all THEN AllowResult
        ELSE IF config.has_allowed_key
          THEN IF FirstMatch(config.allowed, file_path, marker_dir) # 0
                 THEN AllowResult
                 ELSE BlockResult(TRUE, REASON_ALLOWED, <<>>, FALSE, guide)
        ELSE IF config.has_blocked_key
          THEN LET k == FirstMatch(config.blocked, file_path, marker_dir) IN
               IF k = 0 THEN AllowResult
               ELSE BlockResult(TRUE, REASON_BLOCKED,
                        config.blocked[k].pattern, FALSE,
                        IF config.blocked[k].guide # ""
                          THEN config.blocked[k].guide ELSE guide)
        ELSE BlockResult(TRUE, REASON_TREE, <<>>, FALSE, guide)

(***************************************************************************)
(* The emitters.  A veto is the record {"decision": "block", "reason": m}; *)
(* the message m is kept as its template and the values filled in.         *)
(***************************************************************************)
Veto(message) == [decision |-> "block", reason |-> message]

test_is_marker_file(file_path) ==
    /\ file_path # <<>>
    /\ basename(file_path) \in {MARKER_FILE_NAME, LOCAL_MARKER_FILE_NAME}

block_marker_removal(target_file) ==
    Veto([template |-> "marker_removal", filename |-> basename(target_file),
          target_file |-> target_file])

block_config_error(marker_path, error_message) ==
    Veto([template |-> "config_error", marker_path |-> marker_path,
          error_message |-> error_message])

\* the reason handed in is not part of the message
block_with_message(target_file, marker_path, reason, guide) ==
    IF guide # ""
      THEN Veto([template |-> "guide", guide |-> guide])
      ELSE Veto([template |-> "default", marker_path |-> marker_path])

\* The phrases a message contains: of the literal texts of the code, the
\* phrases the properties below ask about; the guides of the model contain
\* none of them.
PhrasesOfText(text) ==
    CASE text \in {ERR_MIX_LOCAL, ERR_MIX_HIERARCHY} ->
             {"cannot mix allowed and blocked modes"}
      [] text = ERR_BOTH_KEYS  -> {"cannot specify both"}
      [] text \in {REASON_FULL, REASON_TREE} -> {"protected"}
      [] text = REASON_ALLOWED -> {"not in the allowed list"}
      [] OTHER -> {}

MessagePhrases(message) ==
    CASE message.template = "marker_removal" ->
             {"BLOCKED", "Cannot modify", "protected"}
      [] message.template = "config_error" ->
             {"BLOCKED"} \cup PhrasesOfText(message.error_message)
      [] message.template = "guide" -> PhrasesOfText(message.guide)
      [] message.template = "default" -> {"BLOCKED"}

(***************************************************************************)
(* The hook input.  Standard input holds a JSON object                     *)
(*   {"tool_name": .., "tool_input": {..}, "tool_use_id": ..,              *)
(*    "transcript_path": ..}                                               *)
(* whose tool_input is the sequence of its key/value pairs in text order.  *)
(* A "command" value is the token list shlex.split makes of it.            *)
(***************************************************************************)
Pair(k, v) == [k |-> k, v |-> v]

\* The record on stdin.  json is what json.loads makes of the text: an
\* object, a value that is no object, or a JSONDecodeError (empty text,
\* malformed text).
HookInput(tool_name, tool_input, tool_use_id) ==
    [json |-> "object", tool_name |-> tool_name, tool_input |-> tool_input,
     tool_use_id |-> tool_use_id, transcript_path |-> "/t/main.jsonl"]
RawInput(json) ==
    [json |-> json, tool_name |-> "", tool_input |-> <<>>,
     tool_use_id |-> "", transcript_path |-> ""]

\* a JSON number where a string is expected ("file_path": 5): a sequence
\* whose one element is no character
JSON_NUMBER == <<"<number>">>
\* a tool_input that is no object ("tool_input": "str", "tool_input": null)
NotAnObject == <<[k |-> "<not an object>", v |-> <<>>]>>

\* extract_path_without_json: group 2 of the first match of
\*   "(file_path|notebook_path)"\s*:\s*"([^"]*)"
\* in the text; no match and an empty group are both the empty sequence
\* (main() tests the result for truth only).
extract_path_without_json(input) ==
    LET hits == {i \in DOMAIN input.tool_input :
                   /\ input.tool_input[i].k \in {"file_path", "notebook_path"}
                   /\ input.tool_input[i].v # JSON_NUMBER}
    IN  IF hits = {} THEN <<>>
        ELSE LET raw == JsonEscape(input.tool_input[MinOf(hits)].v)
                 q   == Find(raw, DQUOTE)
             IN  IF q = 0 THEN raw ELSE SubSeq(raw, 1, q - 1)

\* pathlib: the parts of Path(directory) below the root
PathParts(directory) ==
    SelectSeq(SplitSlash(directory), LAMBDA seg : seg # <<>> /\ seg # <<".">>)

has_block_file_in_hierarchy(directory) ==
    LET parts == PathParts(ReplaceBackslash(directory))
    IN  \E n \in 0..Len(parts) :
            LET path == <<SLASH>> \o JoinSlash(SubSeq(parts, 1, n))
            IN  \/ exists(path_join(path, MARKER_FILE_NAME))
                \/ exists(path_join(path, LOCAL_MARKER_FILE_NAME))

\* main(), lines 1202-1210: TRUE when the pre-check ends the run
QuickExit(input) ==
    LET quick_path == extract_path_without_json(input)
        quick_dir  == IF isabs(quick_path) THEN dirname(quick_path)
                      ELSE path_join(cwd, dirname(quick_path))
    IN  quick_path # <<>> /\ ~has_block_file_in_hierarchy(quick_dir)

\* dict.get(key) on tool_input: the last pair with the key wins
ToolInputGet(input, key) ==
    LET hits == {i \in DOMAIN input.tool_input : input.tool_input[i].k = key}
    IN  IF hits = {} THEN <<>> ELSE input.tool_input[MaxOf(hits)].v

(***************************************************************************)
(* get_bash_target_paths, for the commands the model issues: the shlex     *)
(* pass over single_path_cmds, multi_path_cmds and patch, and the regex    *)
(* pass for patch.  A command is the sequence of its words; the words of   *)
(* the model contain no quotes and no blanks, so the text the regexes see  *)
(* is the words joined by blanks.  The result is a set: the code returns   *)
(* list(set(paths)), whose order is arbitrary.                             *)
(***************************************************************************)
CMD_RM    == <<"r", "m">>
CMD_TOUCH == <<"t", "o", "u", "c", "h">>
OPT_RF    == <<"-", "r", "f">>
PathCmds  == {CMD_RM, CMD_TOUCH, <<"m", "v">>, <<"c", "p">>,
              <<"m", "k", "d", "i", "r">>, <<"r", "m", "d", "i", "r">>,
              <<"t", "e", "e">>}
Separators == {<<"|">>, <<";">>, <<"&">>, <<"&", "&">>, <<"|", "|">>,
               <<">">>, <<">", ">">>}

CMD_PATCH == <<"p", "a", "t", "c", "h">>
OPT_I     == <<"-", "i">>
OPT_D     == <<"-", "d">>
OPT_O     == <<"-", "o">>
OPT_R     == <<"-", "R">>
\* line 861: the words that end the arguments of patch
PatchStops == Separators \cup {<<"<">>}

RECURSIVE PatchArgs(_, _)
RECURSIVE ScanTokens(_, _, _)
ScanTokens(tokens, i, collecting) ==
    IF i > Len(tokens) THEN {}
    ELSE LET token == tokens[i] IN
         IF collecting THEN
           IF StartsWith(token, <<"-">>) THEN ScanTokens(tokens, i + 1, TRUE)
           ELSE IF token \in Separators THEN ScanTokens(tokens, i, FALSE)
           ELSE {token} \cup ScanTokens(tokens, i + 1, TRUE)
         ELSE IF token \in PathCmds THEN ScanTokens(tokens, i + 1, TRUE)
         ELSE IF token = CMD_PATCH THEN PatchArgs(tokens, i + 1)
         ELSE ScanTokens(tokens, i + 1, FALSE)

\* lines 858-876: the arguments of patch
PatchArgs(tokens, i) ==
    IF i > Len(tokens) THEN {}
    ELSE LET arg == tokens[i] IN
         IF arg \in PatchStops THEN ScanTokens(tokens, i, FALSE)
         ELSE IF arg = OPT_O /\ i + 1 <= Len(tokens)
           THEN {tokens[i + 1]} \cup PatchArgs(tokens, i + 2)
         ELSE IF arg \in {OPT_I, OPT_D} THEN PatchArgs(tokens, i + 2)
         ELSE IF StartsWith(arg, <<"-">>) THEN PatchArgs(tokens, i + 1)
         ELSE {arg} \cup PatchArgs(tokens, i + 1)

\* a word that -\S+ matches
IsOptionWord(word) == Len(word) >= 2 /\ word[1] = "-"
RegexStopChars == {"|", ";", "&", "<", ">"}
\* the longest prefix that [^\s|;&<>]+ matches
RECURSIVE UntilStop(_)
UntilStop(word) ==
    IF word = <<>> \/ Head(word) \in RegexStopChars THEN <<>>
    ELSE <<Head(word)>> \o UntilStop(Tail(word))

\* lines 969-971, re.finditer of \bpatch\s+(?:-\S+\s+)*([^\s|;&<>]+): after
\* each word patch the option words are skipped and the next word is
\* captured up to its first stop character; a capture that begins with "-"
\* is dropped, and when the next word begins with a stop character the
\* regex backtracks to an option word, which is dropped as well.  The
\* search goes on behind the capture.
RECURSIVE PatchRegex(_, _)
PatchRegex(tokens, i) ==
    IF i > Len(tokens) THEN {}
    ELSE IF tokens[i] # CMD_PATCH THEN PatchRegex(tokens, i + 1)
    ELSE LET rest == {k \in (i + 1)..Len(tokens) : ~IsOptionWord(tokens[k])}
         IN  IF rest = {} THEN {}
             ELSE LET k == MinOf(rest) IN
                  IF UntilStop(tokens[k]) = <<>>
                    THEN PatchRegex(tokens, i + 1)
                  ELSE (IF tokens[k][1] = "-" THEN {}
                        ELSE {UntilStop(tokens[k])})
                           \cup PatchRegex(tokens, k + 1)

get_bash_target_paths(command) ==
    ScanTokens(command, 1, FALSE) \cup PatchRegex(command, 1)

\* the orders in which a set of paths can come out of list(set(paths))
Orders(S) ==
    {f \in [1..Cardinality(S) -> S] : \A x \in S : \E i \in DOMAIN f : f[i] = x}

\* main(), lines 1221-1237: the candidate lists the dispatch can build;
\* NoDispatch when the tool is not guarded
NoDispatch == {}
Candidates(input) ==
    IF input.tool_name \in {"Edit", "Write"}
      THEN {IF ToolInputGet(input, "file_path") = <<>> THEN <<>>
            ELSE <<ToolInputGet(input, "file_path")>>}
    ELSE IF input.tool_name = "NotebookEdit"
      THEN {IF ToolInputGet(input, "notebook_path") = <<>> THEN <<>>
            ELSE <<ToolInputGet(input, "notebook_path")>>}
    ELSE IF input.tool_name = "Bash"
      THEN Orders(get_bash_target_paths(ToolInputGet(input, "command")))
    ELSE NoDispatch

(***************************************************************************)
(* main(), lines 1242-1290: what the loop body does with one candidate.    *)
(* An outcome is the veto written (None when the candidate passes) and     *)
(* the agent cache after it.                                               *)
(***************************************************************************)
Outcome(veto, state) == [veto |-> veto, state |-> state]

\* lines 1256-1263: the verdict of the decision engine is acted upon
PolicyVerdict(protection_info, block_result, after) ==
    IF block_result.is_config_error
      THEN Outcome(block_config_error(protection_info.marker_path,
                                      block_result.reason), after)
    ELSE IF block_result.should_block
      THEN Outcome(block_with_message(protection_info.target_file,
                       protection_info.marker_path, block_result.reason,
                       block_result.guide), after)
    ELSE Outcome(None, after)

\* lines 1252-1263: a policy was found for the candidate
PolicyApplied(protection_info, data, state) ==
    IF agent_exempt(protection_info.config, data, state)
      THEN Outcome(None, AgentStateAfter(protection_info.config, data, state))
      ELSE PolicyVerdict(protection_info,
               test_should_block(protection_info.target_file, protection_info),
               AgentStateAfter(protection_info.config, data, state))

\* lines 1251-1263: the policy of the ancestor chain
PolicyFor(protection_info, data, state) ==
    IF protection_info = None THEN Outcome(None, state)
    ELSE PolicyApplied(protection_info, data, state)

PolicyOutcome(path, data, state) ==
    PolicyFor(test_directory_protected(path), data, state)

\* check_descendant_block_files: os.walk is top-down and lists the entries
\* of a directory in no particular order, so the marker found first lies in
\* a marked directory below dir_path none of whose ancestors below dir_path
\* is marked.  The set of the directories the walk can report.
HasMarker(d) == isfile(MainSlot(d)) \/ isfile(LocalSlot(d))
StrictlyBelow(d, top) ==
    d # top /\ StartsWith(d, IF top = DirRoot THEN top ELSE top \o <<SLASH>>)

check_descendant_block_files(dir_path) ==
    LET full_path == get_full_path(dir_path)
        top       == realpath(full_path)
        marked    == {d \in Dirs : StrictlyBelow(d, top) /\ HasMarker(d)}
        first     == {d \in marked :
                        ~\E a \in marked : StrictlyBelow(d, a)}
    IN  IF ~isdir(full_path) THEN {}
        ELSE {path_join(full_path,
                        LStrip(SubSeq(d, Len(top) + 1, Len(d)), SLASH)) :
                 d \in first}

\* an uncaught exception in place of a veto
Raised == [raised |-> TRUE]

\* lines 1283-1290: the directory of the marker the walk reported
DescendantOutcome(full_path, marker_dir, data, after1) ==
    IF dir_config_raises(marker_dir) THEN Outcome(Raised, after1)
    ELSE LET desc_info == get_merged_dir_config(marker_dir)
             after2    == AgentStateAfter(desc_info.config, data, after1)
         IN  IF ~agent_exempt(desc_info.config, data, after1)
               THEN Outcome(block_with_message(full_path,
                        <<desc_info.marker_path>>,
                        "Child directory is protected",
                        desc_info.config.guide), after2)
               ELSE Outcome(None, after2)

\* lines 1265-1290: the directory sweep
SweepOutcomes(path, data, state) ==
    LET full_path == get_full_path(path)
        dir_info  == get_merged_dir_config(full_path)
        after1    == IF dir_info = None THEN state
                     ELSE AgentStateAfter(dir_info.config, data, state)
        roots     == check_descendant_block_files(full_path)
    IN  IF ~isdir(full_path) THEN {Outcome(None, state)}
        ELSE IF dir_config_raises(full_path) THEN {Outcome(Raised, state)}
        ELSE IF dir_info # None /\ ~agent_exempt(dir_info.config, data, state)
          THEN {Outcome(block_with_message(full_path,
                            <<dir_info.marker_path>>, "Directory is protected",
                            dir_info.config.guide), after1)}
        ELSE IF roots = {} THEN {Outcome(None, after1)}
        ELSE {DescendantOutcome(full_path, marker_dir, data, after1) :
                 marker_dir \in roots}

\* lines 599-632: the walk of test_directory_protected reads every marker
\* file from the directory of the file to the root; one of them raises
walk_raises(file_path) ==
    /\ ~\E i \in DOMAIN SplitSlash(file_path) :
            SplitSlash(file_path)[i] = <<".", ".">>
    /\ dirname(file_path) # <<>>
    /\ \E i \in DOMAIN WalkUp(dirname(file_path)) :
            dir_config_raises(WalkUp(dirname(file_path))[i])

CheckOutcomes(path, data, state) ==
    IF path = <<>> THEN {Outcome(None, state)}
    \* line 1246: os.path.basename of a number raises TypeError
    ELSE IF path = JSON_NUMBER THEN {Outcome(Raised, state)}
    ELSE IF test_is_marker_file(path) /\ isfile(get_full_path(path))
      THEN {Outcome(block_marker_removal(get_full_path(path)), state)}
    ELSE IF walk_raises(ReplaceBackslash(get_full_path(path)))
      THEN {Outcome(Raised, state)}
    ELSE LET policy == PolicyOutcome(path, data, state)
         IN  IF policy.veto # None THEN {policy}
             ELSE SweepOutcomes(path, data, policy.state)

(***************************************************************************)
(* The inputs of the model                                                 *)
(***************************************************************************)
MaxMarkerFiles == 3     \* marker files on disk at one time
MaxPatternLen  == 3     \* matcher harness: characters in a pattern
MaxPathLen     == 3     \* matcher harness: characters in a relative path
MaxEntries     == 2     \* decision harness: entries in a list

PAT_STAR_T   == <<"*", ".", "t">>
PAT_S_STAR_T == <<"s", "/", "*", ".", "t">>
PAT_STAR_J   == <<"*", ".", "j">>

ContentAllow  == [Obj EXCEPT !.has_allowed = TRUE,
                             !.allowed = <<StrEntry(PAT_STAR_T)>>]
ContentBlock  == [Obj EXCEPT !.guide = "G", !.has_blocked = TRUE,
                             !.blocked = <<StrEntry(PAT_S_STAR_T),
                                           DictEntry(PAT_STAR_J, "GE")>>]
ContentBoth   == [Obj EXCEPT !.has_allowed = TRUE, !.has_blocked = TRUE,
                             !.allowed = <<StrEntry(PAT_STAR_T)>>,
                             !.blocked = <<StrEntry(PAT_STAR_J)>>]
ContentAgents == [Obj EXCEPT !.has_agents = TRUE, !.agents_is_list = TRUE,
                             !.agents = <<"Explore">>]
LocalBlock    == [Obj EXCEPT !.has_blocked = TRUE,
                             !.blocked = <<StrEntry(PAT_STAR_T)>>]

MainContents  == {EmptyText, Obj, ContentAllow, ContentBlock, ContentBoth,
                  ContentAgents}
LocalContents == {ContentAllow, LocalBlock}
SlotContents(slot) ==
    IF slot = MainSlot(DirQ) THEN {EmptyText, ContentAllow}
    ELSE IF slot = LocalSlot(DirQ) THEN {LocalBlock}
    ELSE IF basename(slot) = MARKER_FILE_NAME THEN MainContents
    ELSE LocalContents

FileP    == <<"/", "p", "/", "a", ".", "t">>
FilePS   == <<"/", "p", "/", "s", "/", "a", ".", "t">>
FilePSJ  == <<"/", "p", "/", "s", "/", "a", ".", "j">>
FilePSD  == <<"/", "p", "/", "s", "/", "d", "/", "a", ".", "t">>
FileQ    == DirQ \o <<"/", "a", ".", "t">>
FileRoot == <<"/", "a", ".", "t">>
FileRel  == <<"s", "/", "a", ".", "t">>

EditPaths == {FileP, FilePS, FilePSJ, FilePSD, FileQ, FileRoot, FileRel,
              MainSlot(DirP), LocalSlot(DirP), MainSlot(DirPS),
              MainSlot(DirQ), DirP, DirPS}

HookInputs ==
    {HookInput("Edit", <<Pair("file_path", f)>>, t) :
        f \in EditPaths, t \in {"t0", "t1"}}
    \cup {HookInput("Write", <<Pair("file_path", f)>>, "t0") :
        f \in {FilePS, MainSlot(DirP), FileQ}}
    \cup {HookInput("NotebookEdit", <<Pair("notebook_path", f)>>, "t0") :
        f \in {FilePS, FileRoot}}
    \cup {HookInput("Bash", <<Pair("command", c)>>, "t0") :
        c \in {<<CMD_RM, OPT_RF, DirP>>, <<CMD_RM, FileP, FilePS>>,
               <<CMD_RM, FileRoot>>, <<CMD_TOUCH, MainSlot(DirPS)>>,
               <<<<"l", "s">>, DirP>>, <<CMD_RM, OPT_RF, DirRoot>>}}
    \cup {HookInput("Read", <<Pair("file_path", FileP)>>, "t0")}

NoInput == RawInput("")
NoExit  == -1
FreshAgentState == [resolved |-> FALSE, type |-> MAIN_AGENT]

AgentIds   == {"a1"}
AgentTypes == {"Explore", "Plan"}

(***************************************************************************)
(* The guard process: main()                                               *)
(***************************************************************************)
SysExit(out) ==
    /\ pc' = "exited"
    /\ stdout' = out
    /\ exit_code' = 0

\* an exception leaves main(): the interpreter prints the traceback on
\* stderr and ends the process with status 1
EXIT_UNCAUGHT == 1
Crash ==
    /\ pc' = "exited"
    /\ stdout' = <<>>
    /\ exit_code' = EXIT_UNCAUGHT

KnownTools == {"Edit", "Write", "NotebookEdit", "Bash"}

GuardStart(input) ==
    /\ pc = "idle"
    /\ hook_input' = input
    /\ agent_state' = FreshAgentState
    /\ IF QuickExit(input) \/ input.json \in {"empty", "malformed"}
         THEN SysExit(<<>>) /\ paths_to_check' = <<>>
       \* line 1217: data.get on a value that is no object
       ELSE IF input.json = "value"
         THEN Crash /\ paths_to_check' = <<>>
       ELSE IF input.tool_name = "" \/ Candidates(input) = NoDispatch
         THEN SysExit(<<>>) /\ paths_to_check' = <<>>
       \* lines 1225-1233: tool_input.get on a value that is no object
       ELSE IF input.tool_input = NotAnObject
         THEN Crash /\ paths_to_check' = <<>>
         ELSE \E order \in Candidates(input) :
                 /\ paths_to_check' = order
                 /\ IF order = <<>>
                      THEN SysExit(<<>>)
                      ELSE /\ pc' = "loop"
                           /\ UNCHANGED <<stdout, exit_code>>
    /\ UNCHANGED <<markers, tracking, cwd, harnessVars, trackerVars>>

GuardCheckPath ==
    /\ pc = "loop"
    /\ \E o \in CheckOutcomes(Head(paths_to_check), hook_input, agent_state) :
          /\ agent_state' = o.state
          /\ IF o.veto = Raised
               THEN Crash /\ UNCHANGED paths_to_check
             ELSE IF o.veto # None
               THEN SysExit(<<o.veto>>) /\ UNCHANGED paths_to_check
               ELSE /\ paths_to_check' = Tail(paths_to_check)
                    /\ IF Tail(paths_to_check) = <<>>
                         THEN SysExit(<<>>)
                         ELSE UNCHANGED <<pc, stdout, exit_code>>
    /\ UNCHANGED <<markers, tracking, cwd, hook_input, harnessVars, trackerVars>>

\* the process is gone; its record is cleared
GuardReap ==
    /\ pc = "exited"
    /\ pc' = "idle"
    /\ hook_input' = NoInput
    /\ paths_to_check' = <<>>
    /\ agent_state' = FreshAgentState
    /\ stdout' = <<>>
    /\ exit_code' = NoExit
    /\ UNCHANGED <<markers, tracking, cwd, harnessVars, trackerVars>>

(***************************************************************************)
(* The environment: the user edits marker files and changes directory      *)
(* between runs of the guard; the sub-agent tracker runs at any time.      *)
(***************************************************************************)
MarkerCount == Cardinality({slot \in MarkerSlots : markers[slot] # Absent})

WriteMarker(slot, content) ==
    /\ pc = "idle"
    /\ markers[slot] # content
    /\ markers[slot] = Absent => MarkerCount < MaxMarkerFiles
    /\ markers' = [markers EXCEPT ![slot] = content]
    /\ UNCHANGED <<tracking, pc, hook_input, cwd, paths_to_check, agent_state,
                   stdout, exit_code, harnessVars, trackerVars>>

RemoveMarker(slot) ==
    /\ pc = "idle"
    /\ markers[slot] # Absent
    /\ markers' = [markers EXCEPT ![slot] = Absent]
    /\ UNCHANGED <<tracking, pc, hook_input, cwd, paths_to_check, agent_state,
                   stdout, exit_code, harnessVars, trackerVars>>

Chdir(d) ==
    /\ pc = "idle"
    /\ cwd # d
    /\ cwd' = d
    /\ UNCHANGED <<markers, tracking, pc, hook_input, paths_to_check,
                   agent_state, stdout, exit_code, harnessVars, trackerVars>>

\* dict.update / dict.pop on the agent map, kept in insertion order
\* the new entry alone is written, the entries read before are dropped
MapUpdateAlone(map, agent_id, agent_type) ==
    <<[agent_id |-> agent_id, agent_type |-> agent_type]>>

MapUpdate(map, agent_id, agent_type) ==
    IF \E i \in DOMAIN map : map[i].agent_id = agent_id
      THEN [i \in DOMAIN map |->
               IF map[i].agent_id = agent_id
                 THEN [agent_id |-> agent_id, agent_type |-> agent_type]
                 ELSE map[i]]
      ELSE Append(map, [agent_id |-> agent_id, agent_type |-> agent_type])
MapPop(map, agent_id) ==
    SelectSeq(map, LAMBDA e : e.agent_id # agent_id)

handle_start(agent_id, agent_type) ==
    /\ pc # "exited"
    /\ agent_id # ""
    /\ tracking' = [exists |-> TRUE,
                    agent_map |-> MapUpdate(tracking.agent_map, agent_id,
                        IF agent_type = "" THEN "unknown" ELSE agent_type)]
    /\ tracking' # tracking
    /\ UNCHANGED <<markers, pc, hook_input, cwd, paths_to_check, agent_state,
                   stdout, exit_code, harnessVars, trackerVars>>

handle_stop(agent_id) ==
    /\ pc # "exited"
    /\ agent_id # ""
    /\ tracking.exists
    /\ tracking' = [tracking EXCEPT !.agent_map = MapPop(@, agent_id)]
    /\ tracking' # tracking
    /\ UNCHANGED <<markers, pc, hook_input, cwd, paths_to_check, agent_state,
                   stdout, exit_code, harnessVars, trackerVars>>

MatchIdle  == m_pattern = <<>> /\ m_path = <<>> /\ m_result = "unset"
DecideIdle == d_info = None /\ d_path = <<>> /\ d_result = None

\* the function harness has applied nothing
Unset    == [unset |-> TRUE]
CallIdle == h_call = None /\ h_result = Unset

\* the tracker processes; none has been started
Procs   == {1, 2}
NoProc  == 0
NoEvent ==
    [json |-> "", hook_type |-> "", agent_id |-> "", agent_type |-> "",
     transcript_path |-> ""]
TrackerIdle ==
    /\ t_pc = [p \in Procs |-> "idle"]
    /\ t_event = [p \in Procs |-> NoEvent]
    /\ t_current = [p \in Procs |-> <<>>]
    /\ lock_owner = NoProc
    /\ t_exit = [p \in Procs |-> NoExit]
    /\ history = <<>>

GuardInit ==
    /\ markers = [slot \in MarkerSlots |-> Absent]
    /\ tracking = [exists |-> FALSE, agent_map |-> <<>>]
    /\ pc = "idle"
    /\ hook_input = NoInput
    /\ cwd = DirP
    /\ paths_to_check = <<>>
    /\ agent_state = FreshAgentState
    /\ stdout = <<>>
    /\ exit_code = NoExit

Init == GuardInit /\ MatchIdle /\ DecideIdle /\ CallIdle /\ TrackerIdle

Next ==
    \/ \E input \in HookInputs : GuardStart(input)
    \/ GuardCheckPath
    \/ GuardReap
    \/ \E slot \in MarkerSlots : \E content \in SlotContents(slot) :
          WriteMarker(slot, content)
    \/ \E slot \in MarkerSlots : RemoveMarker(slot)
    \/ \E d \in {DirP, DirRoot} : Chdir(d)
    \/ \E a \in AgentIds, t \in AgentTypes : handle_start(a, t)
    \/ \E a \in AgentIds : handle_stop(a)

Spec == Init /\ [][Next]_vars

(***************************************************************************)
(* The matcher harness: a pattern and a relative path are drawn, and the   *)
(* matcher of test_path_matches_pattern is applied to them.                *)
(***************************************************************************)
PatternChars == {"*", "?", "/", "a", "."}
PathChars    == {"a", "/", ".", NEWLINE}

SeqsUpTo(A, n) == UNION {[1..k -> A] : k \in 0..n}

InitMatch ==
    /\ GuardInit
    /\ DecideIdle /\ CallIdle /\ TrackerIdle
    /\ m_pattern \in SeqsUpTo(PatternChars, MaxPatternLen)
    /\ m_path \in SeqsUpTo(PathChars, MaxPathLen)
    /\ m_result = "unset"

ApplyMatch ==
    /\ m_result = "unset"
    /\ m_result' = IF re_match(convert_wildcard_to_regex(m_pattern), m_path)
                     THEN "match" ELSE "nomatch"
    /\ UNCHANGED <<m_pattern, m_path, guardVars, decideVars, callVars,
                   trackerVars>>

NextMatch == ApplyMatch

SpecMatch == InitMatch /\ [][NextMatch]_vars

(***************************************************************************)
(* C7.  The glob language as the specification words it: the pattern must  *)
(* match the entire relative path; "*" is a run of characters other than   *)
(* "/", "**" any run of characters, a leading double star with its slash   *)
(* an optional directory prefix of any depth, "?" exactly one character,   *)
(* and every other character itself.                                       *)
(***************************************************************************)
RECURSIVE GlobFrom(_, _, _, _)
GlobFrom(pattern, i, path, j) ==
    IF i > Len(pattern) THEN j = Len(path) + 1
    ELSE IF pattern[i] = "*" /\ CharAt(pattern, i + 1) = "*" THEN
      IF i = 1 /\ CharAt(pattern, 3) = SLASH
        THEN \/ GlobFrom(pattern, 4, path, j)
             \/ \E k \in j..Len(path) :
                    path[k] = SLASH /\ GlobFrom(pattern, 4, path, k + 1)
        ELSE \E k \in j..(Len(path) + 1) : GlobFrom(pattern, i + 2, path, k)
    ELSE IF pattern[i] = "*" THEN
      \E k \in j..(Len(path) + 1) :
          NoSlash(path, j, k - 1) /\ GlobFrom(pattern, i + 1, path, k)
    ELSE IF pattern[i] = "?" THEN
      j <= Len(path) /\ GlobFrom(pattern, i + 1, path, j + 1)
    ELSE
      /\ j <= Len(path)
      /\ path[j] = pattern[i]
      /\ GlobFrom(pattern, i + 1, path, j + 1)

GlobMatches(pattern, path) == GlobFrom(pattern, 1, path, 1)

\* C7: whenever the matcher reports a match, the pattern matches the entire
\* relative path in the glob language: * is any run of non-'/' characters,
\* ** any run of characters, a leading **/ an optional directory prefix,
\* ? exactly one character, and any other character only itself.
C7_MatchOnlyIfWholePath ==
    m_result = "match" => GlobMatches(m_pattern, m_path)

(***************************************************************************)
(* Vocabulary of the guard properties, read off the tree itself            *)
(***************************************************************************)
Vetoed  == pc = "exited" /\ Len(stdout) = 1 /\ stdout[1].decision = "block"
Allowed == pc = "exited" /\ stdout = <<>> /\ exit_code = 0

\* the run examines exactly the candidate p
Sole(p) == Candidates(hook_input) = {<<p>>}

Present(slot) == slot \in MarkerSlots /\ markers[slot] # Absent
Marked(d)     == Present(MainSlot(d)) \/ Present(LocalSlot(d))
Abs(p)        == IF p[1] = SLASH THEN p ELSE cwd \o <<SLASH>> \o p
\* path x is the directory d or lies below it
Under(x, d)   == d = DirRoot \/ x = d \/ StartsWith(x, d \o <<SLASH>>)
\* the directories from the one holding p up to the root
ChainDirs(p)  == {d \in Dirs : Under(dirname(Abs(p)), d)}
IsMarkerName(p) ==
    basename(p) \in {MARKER_FILE_NAME, LOCAL_MARKER_FILE_NAME}
\* the closest marked directory of p's chain is d
Closest(p, d) ==
    /\ d \in ChainDirs(p) /\ Marked(d)
    /\ \A e \in ChainDirs(p) : Marked(e) => Under(d, e)

(***************************************************************************)
(* C1.  Marker self-protection.                                            *)
(***************************************************************************)
\* C1: a run whose candidate is a marker file that exists ends with a veto
\* whose reason says "Cannot modify"; when the marker file does not exist
\* and no policy of its ancestor chain blocks it, the run allows it.
C1_MarkerSelfProtection ==
    \A p \in EditPaths :
        (pc = "exited" /\ Sole(p) /\ IsMarkerName(p)) =>
            IF Present(Abs(p))
              THEN Vetoed /\ "Cannot modify" \in MessagePhrases(stdout[1].reason)
              ELSE PolicyOutcome(p, hook_input, FreshAgentState).veto = None
                       => Allowed

(***************************************************************************)
(* C2.  An empty marker blocks everything below it.                        *)
(***************************************************************************)
\* C2: an Edit, Write or NotebookEdit run whose target lies under a closest
\* marker directory holding an empty (or {}) .block file ends with a veto.
C2_EmptyMarkerBlocksAll ==
    \A p \in EditPaths : \A d \in Dirs :
        (/\ pc = "exited" /\ Sole(p)
         /\ hook_input.tool_name \in {"Edit", "Write", "NotebookEdit"}
         /\ Closest(p, d)
         /\ Present(MainSlot(d))
         /\ markers[MainSlot(d)] \in {EmptyText, Obj})
        => Vetoed

(***************************************************************************)
(* C3.  No marker, no veto.                                                *)
(***************************************************************************)
NoMarkerConcerns(p) ==
    /\ ~\E d \in ChainDirs(p) : Marked(d)
    /\ ~(IsMarkerName(p) /\ Present(Abs(p)))
    /\ Abs(p) \in Dirs => ~\E d \in Dirs : Under(d, Abs(p)) /\ Marked(d)

\* C3: a run all of whose candidates have no marker file on their ancestor
\* chain, are not existing marker files and (when directories) hold no
\* marker file in themselves or below, ends with empty standard output and
\* exit code 0, wherever else markers lie.
C3_NoMarkerAllows ==
    (/\ pc = "exited"
     /\ \A order \in Candidates(hook_input) :
            \A i \in DOMAIN order : NoMarkerConcerns(order[i]))
    => stdout = <<>> /\ exit_code = 0

\* a target outside the marked working directory, next to a marked sibling
C3_Witness ==
    /\ Allowed /\ Sole(FileQ) /\ cwd = DirP
    /\ Marked(DirP) /\ Marked(DirPS) /\ ~Marked(DirQ)

(***************************************************************************)
(* C6.  The default veto reasons.                                          *)
(***************************************************************************)
\* the policy step of the run on p vetoed, and no guide applied
PolicyVetoNoGuide(p) ==
    LET info == test_directory_protected(p) IN
    /\ Vetoed /\ Sole(p)
    /\ ~(IsMarkerName(p) /\ Present(Abs(p)))
    /\ info # None
    /\ ~agent_exempt(info.config, hook_input, FreshAgentState)
    /\ test_should_block(info.target_file, info).should_block
    /\ ~test_should_block(info.target_file, info).is_config_error
    /\ test_should_block(info.target_file, info).guide = ""

\* C6: when a policy vetoes a path and no guide applies, the reason written
\* contains "protected" under BlockAll and "not in the allowed list" under
\* an AllowList that no selector of which matches.
C6_DefaultReasons ==
    \A p \in EditPaths :
        PolicyVetoNoGuide(p) =>
            LET config == test_directory_protected(p).config IN
            /\ config.is_empty
                   => "protected" \in MessagePhrases(stdout[1].reason)
            /\ config.has_allowed_key
                   => "not in the allowed list"
                          \in MessagePhrases(stdout[1].reason)

(***************************************************************************)
(* C8.  Selectors are matched relative to the marker that owns them.       *)
(***************************************************************************)
\* some selector of a blocked list in directory d matches p relative to d
OwnBlockedSelectorMatches(p, d) ==
    \E slot \in {MainSlot(d), LocalSlot(d)} :
        /\ Present(slot)
        /\ markers[slot].kind = "object"
        /\ markers[slot].has_blocked
        /\ \E i \in DOMAIN markers[slot].blocked :
               test_path_matches_pattern(Abs(p),
                   markers[slot].blocked[i].pattern, d)

\* C8: when the effective policy of p is a BlockList that applies to the
\* caller, and a blocked selector of some marker directory of p's chain
\* matches p relative to that directory, the run ends with a veto.
C8_SelectorsRelativeToOwner ==
    \A p \in EditPaths : \A d \in Dirs :
        LET info == test_directory_protected(p) IN
        (/\ pc = "exited" /\ Sole(p)
         /\ info # None
         /\ info.config.has_blocked_key /\ ~info.config.has_error
         /\ ~agent_exempt(info.config, hook_input, FreshAgentState)
         /\ d \in ChainDirs(p)
         /\ OwnBlockedSelectorMatches(p, d))
        => Vetoed

(***************************************************************************)
(* C9.  .block and .block.local of one directory in different modes.       *)
(***************************************************************************)
Mode(content) ==
    IF content.kind # "object" THEN "empty"
    ELSE IF content.has_allowed /\ content.has_blocked THEN "both"
    ELSE IF content.has_allowed THEN "allow"
    ELSE IF content.has_blocked THEN "block"
    ELSE "empty"
SlotMode(slot) == IF Present(slot) THEN Mode(markers[slot]) ELSE "absent"

MixedLocally(d) ==
    {SlotMode(MainSlot(d)), SlotMode(LocalSlot(d))} = {"allow", "block"}

\* C9: when .block and .block.local of a directory use different list
\* modes, the directory's merged policy is a ConfigError, and every run on
\* a target (not itself a marker file) whose closest marker directory it
\* is ends with a veto whose reason contains "cannot mix allowed and
\* blocked modes".
C9_LocalMixIsConfigError ==
    \A d \in Dirs : MixedLocally(d) =>
        /\ get_merged_dir_config(d).config.has_error
        /\ \A p \in EditPaths :
               (/\ pc = "exited" /\ Sole(p)
                /\ Closest(p, d)
                /\ ~IsMarkerName(p)) =>
                   /\ Vetoed
                   /\ "cannot mix allowed and blocked modes"
                          \in MessagePhrases(stdout[1].reason)

(***************************************************************************)
(* C10.  When mode mixing is a ConfigError.                                *)
(***************************************************************************)
MarkedChain(p) == {d \in ChainDirs(p) : Marked(d)}

DirError(d) ==
    \/ SlotMode(MainSlot(d)) = "both"
    \/ SlotMode(LocalSlot(d)) = "both"
    \/ MixedLocally(d)

\* the mode of a directory's merged policy, when it is not an error
DirKind(d) ==
    IF \/ SlotMode(MainSlot(d)) \in {"absent", "empty"}
       \/ SlotMode(LocalSlot(d)) = "empty"
      THEN "blockall"
      ELSE SlotMode(MainSlot(d))

\* some marker file of p's chain has an allowed list and some a blocked list
ChainMixesModes(p) ==
    \E d1 \in MarkedChain(p), d2 \in MarkedChain(p) :
        \E s1 \in {MainSlot(d1), LocalSlot(d1)},
           s2 \in {MainSlot(d2), LocalSlot(d2)} :
            /\ SlotMode(s1) \in {"allow", "both"}
            /\ SlotMode(s2) \in {"block", "both"}

OwnAllowedSelectorMatches(p, c) ==
    \E i \in DOMAIN get_merged_dir_config(c).config.allowed :
        test_path_matches_pattern(Abs(p),
            get_merged_dir_config(c).config.allowed[i].pattern, c)

\* p is a plain file target: no marker file name, no directory
PlainTarget(p) == ~IsMarkerName(p) /\ Abs(p) \notin Dirs

\* C11: when the closest marker directory c of a path has a farther marker
\* directory above it and no directory of the chain is a ConfigError, then
\* if c's policy is an AllowList the effective selectors are exactly c's
\* allowed list (nothing blocked, nothing inherited), and if c's policy is
\* BlockAll the effective policy is BlockAll; and under a closest AllowList
\* that applies to the caller a plain file is allowed when one of c's
\* allowed selectors matches it and vetoed when none does.
C11_ChildOverridesParent ==
    \A p \in EditPaths : \A c \in Dirs :
        (/\ pc = "exited" /\ Sole(p)
         /\ Closest(p, c)
         /\ \E d \in MarkedChain(p) : d # c
         /\ \A d \in MarkedChain(p) : ~DirError(d)) =>
            /\ DirKind(c) = "allow" =>
                 /\ test_directory_protected(p).config.has_allowed_key
                 /\ ~test_directory_protected(p).config.has_blocked_key
                 /\ ~test_directory_protected(p).config.is_empty
                 /\ test_directory_protected(p).config.allowed
                        = get_merged_dir_config(c).config.allowed
                 /\ test_directory_protected(p).config.blocked = <<>>
            /\ DirKind(c) = "blockall" =>
                 /\ test_directory_protected(p).config.is_empty
                 /\ test_directory_protected(p).config.allowed = <<>>
                 /\ test_directory_protected(p).config.blocked = <<>>
            /\ (/\ DirKind(c) = "allow"
                /\ PlainTarget(p)
                /\ ~agent_exempt(test_directory_protected(p).config,
                                 hook_input, FreshAgentState)) =>
                   IF OwnAllowedSelectorMatches(p, c) THEN Allowed ELSE Vetoed

\* a file matching the child's allowed list under a fully protected parent
C11_Witness ==
    /\ Allowed /\ Sole(FilePS)
    /\ markers[MainSlot(DirPS)] = ContentAllow
    /\ markers[MainSlot(DirP)] = EmptyText
    /\ ~Present(LocalSlot(DirP))

(***************************************************************************)
(* The decision harness: an effective AllowList or BlockList policy and a  *)
(* target under its marker directory are drawn, and test_should_block is   *)
(* applied to them.                                                        *)
(***************************************************************************)
PAT_A_ANY  == <<"a", ".", "*">>
EntryPool  == {StrEntry(PAT_STAR_T), StrEntry(PAT_A_ANY),
               DictEntry(PAT_STAR_J, "GE"), DictEntry(PAT_A_ANY, ""),
               DictEntry(PAT_STAR_T, "GT")}
DecidePaths == {FileP, <<"/", "p", "/", "a", ".", "j">>,
                <<"/", "p", "/", "b", ".", "j">>,
                <<"/", "p", "/", "b", ".", "x">>}
NoAgentFields == merge_agent_fields(create_empty_config, create_empty_config)

DecideConfigs ==
    {AllowListConfig(l, g, NoAgentFields) :
        l \in SeqsUpTo(EntryPool, MaxEntries), g \in {"", "G"}}
    \cup {BlockListConfig(l, g, NoAgentFields) :
        l \in SeqsUpTo(EntryPool, MaxEntries), g \in {"", "G"}}

InitDecide ==
    /\ GuardInit
    /\ MatchIdle /\ CallIdle /\ TrackerIdle
    /\ d_info \in {[target_file |-> f,
                    marker_path |-> <<MarkerDesc(MainSlot(DirP), FALSE)>>,
                    marker_directory |-> DirP,
                    config |-> c] : f \in DecidePaths, c \in DecideConfigs}
    /\ d_path = d_info.target_file
    /\ d_result = None

Decide ==
    /\ d_result = None
    /\ d_result' = test_should_block(d_path, d_info)
    /\ UNCHANGED <<d_info, d_path, guardVars, matchVars, callVars,
                   trackerVars>>

NextDecide == Decide

SpecDecide == InitDecide /\ [][NextDecide]_vars

\* the entries of a list that match the target of the harness
MatchingEntries(entries) ==
    {i \in DOMAIN entries :
        test_path_matches_pattern(d_path, entries[i].pattern,
                                  d_info.marker_directory)}

(***************************************************************************)
(* C4.  AllowList decisions.                                               *)
(***************************************************************************)
\* C4: under an AllowList the decision is Allow exactly when some entry of
\* the allowed list (a bare string, or the pattern of an object) matches
\* the target; with no entry at all every target is blocked.
C4_AllowListDecision ==
    (d_result # None /\ d_info.config.has_allowed_key) =>
        (~d_result.should_block
             <=> MatchingEntries(d_info.config.allowed) # {})

\* the second entry, an object, is the one that lets the target through
C4_Witness ==
    /\ d_result # None /\ d_info.config.has_allowed_key
    /\ Len(d_info.config.allowed) = 2
    /\ MatchingEntries(d_info.config.allowed) = {2}
    /\ d_info.config.allowed[2].kind = "dict"
    /\ ~d_result.should_block

(***************************************************************************)
(* C5.  BlockList decisions and their reasons.                             *)
(***************************************************************************)
\* the veto main() writes for a block_result of the policy step
EmittedFor(info, block_result) ==
    block_with_message(info.target_file, info.marker_path,
                       block_result.reason, block_result.guide)

\* C5: under a BlockList the decision is Block exactly when some entry
\* matches the target, and the reason written is then the guide of the
\* first matching entry if it has one, else the guide of the policy if it
\* has one, else the default message.
C5_BlockListDecision ==
    (d_result # None /\ d_info.config.has_blocked_key) =>
        LET hits  == MatchingEntries(d_info.config.blocked)
            first == d_info.config.blocked[MinOf(hits)]
        IN  /\ d_result.should_block <=> hits # {}
            /\ hits # {} =>
                 EmittedFor(d_info, d_result).reason =
                    IF first.guide # ""
                      THEN [template |-> "guide", guide |-> first.guide]
                    ELSE IF d_info.config.guide # ""
                      THEN [template |-> "guide",
                            guide |-> d_info.config.guide]
                    ELSE [template |-> "default",
                          marker_path |-> d_info.marker_path]

\* two entries match; the first has no guide of its own, the second has
C5_Witness ==
    /\ d_result # None /\ d_info.config.has_blocked_key
    /\ MatchingEntries(d_info.config.blocked) = {1, 2}
    /\ d_info.config.blocked[1].guide = ""
    /\ d_info.config.blocked[2].guide = "GE"
    /\ d_info.config.guide = "G"
    /\ EmittedFor(d_info, d_result).reason
           = [template |-> "guide", guide |-> "G"]

(***************************************************************************)
(* C15.  The sweep of a directory that is itself the target.               *)
(***************************************************************************)
\* the agent on whose behalf the run was made
Caller == resolve_agent_type(hook_input)

\* directory e holds a marker file, and its policy applies to the caller
AppliesToCaller(e) ==
    /\ Marked(e)
    /\ should_apply_to_agent(get_merged_dir_config(e).config, Caller)

\* C15: a run whose candidate is an existing directory ends with a veto if
\* the directory or any directory below it holds a marker file whose
\* policy applies to the invoking agent, whatever the mode of that marker
\* and whatever other directories below the target hold.  (Runs that the
\* pre-check ends are left out: they are the matter of C17.)
C15_DescendantMarkerVetoes ==
    \A d \in Dirs :
        (/\ pc = "exited" /\ Sole(d) /\ ~QuickExit(hook_input)
         /\ \E e \in Dirs : Under(e, d) /\ AppliesToCaller(e))
        => Vetoed

(***************************************************************************)
(* C17.  The pre-check against the full evaluation.                        *)
(***************************************************************************)
\* the loop of main() over the candidates, lines 1242-1290: the vetoes it
\* can end with, None when every candidate passes
RECURSIVE LoopOutcomes(_, _, _)
LoopOutcomes(paths, data, state) ==
    IF paths = <<>> THEN {None}
    ELSE UNION {IF o.veto # None THEN {o.veto}
                ELSE LoopOutcomes(Tail(paths), data, o.state) :
                   o \in CheckOutcomes(Head(paths), data, state)}

\* main() from line 1212 on: parsing, dispatch and the loop, the pre-check
\* of lines 1202-1210 left out
FullEvaluation(input) ==
    IF input.tool_name = "" \/ Candidates(input) = NoDispatch THEN {None}
    ELSE UNION {LoopOutcomes(order, input, FreshAgentState) :
                   order \in Candidates(input)}

\* C17: the pre-check is an optimization only: a run that the pre-check
\* ends (an allow) is a run that full parsing and evaluation, without the
\* pre-check, would also end with an allow.
C17_PreCheckNeverHidesVeto ==
    (pc = "exited" /\ QuickExit(hook_input))
        => None \in FullEvaluation(hook_input)

(***************************************************************************)
(* The merger harness: two policies that the parser can produce are drawn  *)
(* and merge_configs or _merge_hierarchical_configs is applied to them.    *)
(***************************************************************************)
PAT_A == <<"a">>
PAT_B == <<"b">>
\* bare strings, objects, and a bare string that spells an object
MergeEntryPool ==
    {StrEntry(PAT_A), StrEntry(PAT_B), DictEntry(PAT_A, ""),
     DictEntry(PAT_A, "G"), StrEntry(json_dumps(DictEntry(PAT_A, "")))}

AgentsKeyForms ==
    {[has_agents |-> FALSE, agents_is_list |-> FALSE, agents |-> <<>>],
     [has_agents |-> TRUE, agents_is_list |-> TRUE, agents |-> <<>>],
     [has_agents |-> TRUE, agents_is_list |-> TRUE, agents |-> <<"Explore">>],
     [has_agents |-> TRUE, agents_is_list |-> FALSE, agents |-> <<>>]}
DmaKeyForms ==
    {[has_dma |-> FALSE, dma_is_bool |-> FALSE, dma |-> FALSE],
     [has_dma |-> TRUE, dma_is_bool |-> TRUE, dma |-> TRUE],
     [has_dma |-> TRUE, dma_is_bool |-> TRUE, dma |-> FALSE]}

WithKeys(content, a, d) ==
    [content EXCEPT !.has_agents = a.has_agents,
                    !.agents_is_list = a.agents_is_list,
                    !.agents = a.agents,
                    !.has_dma = d.has_dma, !.dma_is_bool = d.dma_is_bool,
                    !.dma = d.dma]

MergeContents ==
    {EmptyText, ContentBoth}
    \cup {[Obj EXCEPT !.has_blocked = TRUE, !.blocked = l] :
             l \in SeqsUpTo(MergeEntryPool, MaxEntries)}
    \cup {[Obj EXCEPT !.has_allowed = TRUE, !.allowed = l] :
             l \in SeqsUpTo({StrEntry(PAT_A), StrEntry(PAT_B)}, 1)}
    \cup {WithKeys([c EXCEPT !.guide = g], a, d) :
             c \in {Obj,
                    [Obj EXCEPT !.has_allowed = TRUE,
                                !.allowed = <<StrEntry(PAT_A)>>],
                    [Obj EXCEPT !.has_blocked = TRUE,
                                !.blocked = <<StrEntry(PAT_A)>>]},
             g \in {"", "G"}, a \in AgentsKeyForms, d \in DmaKeyForms}

MergePolicies == {ParseContent(c) : c \in MergeContents}

MergeCalls ==
    {[op |-> "merge_configs", first |-> x, second |-> y] :
        x \in MergePolicies, y \in MergePolicies \cup {None}}
    \cup {[op |-> "merge_hierarchical_configs", first |-> x, second |-> y] :
        x \in MergePolicies, y \in MergePolicies}

InitMerge ==
    /\ GuardInit /\ MatchIdle /\ DecideIdle /\ TrackerIdle
    /\ h_call \in MergeCalls
    /\ h_result = Unset

ApplyMerge ==
    /\ h_call # None
    /\ h_call.op \in {"merge_configs", "merge_hierarchical_configs"}
    /\ h_result = Unset
    /\ h_result' = IF h_call.op = "merge_configs"
                     THEN merge_configs(h_call.first, h_call.second)
                     ELSE merge_hierarchical_configs(h_call.first,
                                                     h_call.second)
    /\ UNCHANGED <<h_call, guardVars, matchVars, decideVars, trackerVars>>

NextMerge == ApplyMerge

SpecMerge == InitMerge /\ [][NextMerge]_vars

\* a merger has been applied to two BlockList policies
MergedBlockLists ==
    /\ h_result # Unset
    /\ h_call.second # None
    /\ ~h_call.first.has_error /\ ~h_call.second.has_error
    /\ h_call.first.has_blocked_key /\ h_call.second.has_blocked_key

(***************************************************************************)
(* C12.  The union of two blocked lists.                                   *)
(***************************************************************************)
\* the first occurrence of every entry, two entries being the same when
\* they are equal strings or equal objects
RECURSIVE FirstOccurrences(_, _)
FirstOccurrences(items, seen) ==
    IF items = <<>> THEN <<>>
    ELSE IF Head(items) \in seen THEN FirstOccurrences(Tail(items), seen)
    ELSE <<Head(items)>>
             \o FirstOccurrences(Tail(items), seen \cup {Head(items)})

\* C12: merging two BlockList policies yields the list of the first
\* occurrences of the entries of the first input (main, resp. child)
\* followed by those of the second (local, resp. parent): every entry of
\* both inputs exactly once, in first-seen order.
C12_UnionExactlyOnce ==
    MergedBlockLists =>
        h_result.blocked
            = FirstOccurrences(h_call.first.blocked \o h_call.second.blocked,
                               {})

(***************************************************************************)
(* C14.  The agent-scope fields of a merged policy.                        *)
(***************************************************************************)
KeyAbsent == <<"absent">>
AgentsField(config) ==
    IF config # None /\ config.has_agents_key
      THEN <<"present", config.agents>> ELSE KeyAbsent
DisableMainField(config) ==
    IF config # None /\ config.has_disable_main_agent_key
      THEN <<"present", config.disable_main_agent>> ELSE KeyAbsent

\* local, resp. child: the side that wins when it has the key
PrimarySide  == IF h_call.op = "merge_configs" THEN h_call.second
                ELSE h_call.first
FallbackSide == IF h_call.op = "merge_configs" THEN h_call.first
                ELSE h_call.second

MergedWithoutError ==
    /\ h_result # Unset
    /\ h_call.op \in {"merge_configs", "merge_hierarchical_configs"}
    /\ ~h_call.first.has_error
    /\ h_call.second # None => ~h_call.second.has_error
    /\ ~h_result.has_error

\* C14: in both mergers, when neither input nor the result is a
\* ConfigError, the agents list and disable_main_agent of the result are
\* each the local (child) value if that side has the key, else the main
\* (parent) value if that side has it, else absent, whatever the modes.
C14_AgentScopePerField ==
    MergedWithoutError =>
        /\ AgentsField(h_result)
             = IF AgentsField(PrimarySide) # KeyAbsent
                 THEN AgentsField(PrimarySide) ELSE AgentsField(FallbackSide)
        /\ DisableMainField(h_result)
             = IF DisableMainField(PrimarySide) # KeyAbsent
                 THEN DisableMainField(PrimarySide)
                 ELSE DisableMainField(FallbackSide)

\* an AllowList child without an agents key but with disable_main_agent
\* over a BlockList parent that lists Explore: one field from each side
C14_Witness ==
    /\ MergedWithoutError
    /\ h_call.op = "merge_hierarchical_configs"
    /\ h_call.first.has_allowed_key /\ h_call.second.has_blocked_key
    /\ AgentsField(h_call.first) = KeyAbsent
    /\ AgentsField(h_call.second) = <<"present", <<"Explore">> >>
    /\ DisableMainField(h_call.first) = <<"present", TRUE>>
    /\ DisableMainField(h_call.second) = <<"present", FALSE>>
    /\ AgentsField(h_result) = <<"present", <<"Explore">> >>
    /\ DisableMainField(h_result) = <<"present", TRUE>>

(***************************************************************************)
(* The agent-filter harness: a parsed policy and an agent type are drawn   *)
(* and should_apply_to_agent is applied.                                   *)
(***************************************************************************)
CallerTypes == {MAIN_AGENT, "Explore", "Plan", "unknown"}

AgentContents ==
    {WithKeys([c EXCEPT !.guide = g], a, d) :
        c \in {Obj,
               [Obj EXCEPT !.has_allowed = TRUE,
                           !.allowed = <<StrEntry(PAT_A)>>],
               [Obj EXCEPT !.has_blocked = TRUE,
                           !.blocked = <<StrEntry(PAT_A)>>]},
        g \in {"", "G"},
        a \in AgentsKeyForms
               \cup {[has_agents |-> TRUE, agents_is_list |-> TRUE,
                      agents |-> <<"Explore", "Plan">>]},
        d \in DmaKeyForms}

AgentCalls ==
    {[op |-> "should_apply_to_agent", first |-> ParseContent(c),
      second |-> t] : c \in AgentContents, t \in CallerTypes}

InitAgent ==
    /\ GuardInit /\ MatchIdle /\ DecideIdle /\ TrackerIdle
    /\ h_call \in AgentCalls
    /\ h_result = Unset

ApplyAgentFilter ==
    /\ h_call # None
    /\ h_call.op = "should_apply_to_agent"
    /\ h_result = Unset
    /\ h_result' = [applies |->
                      should_apply_to_agent(h_call.first, h_call.second)]
    /\ UNCHANGED <<h_call, guardVars, matchVars, decideVars, trackerVars>>

NextAgent == ApplyAgentFilter

SpecAgent == InitAgent /\ [][NextAgent]_vars

FilterApplied == h_result # Unset /\ h_call.op = "should_apply_to_agent"
Listed(config, agent_type) ==
    \E i \in DOMAIN config.agents : config.agents[i] = agent_type

RobustInputs ==
    {RawInput("empty"), RawInput("malformed"), RawInput("value")}
    \cup {HookInput(tool, tool_input, "t0") :
            tool \in {"", "Edit", "Read"},
            tool_input \in {<<>>, NotAnObject,
                            <<Pair("file_path", JSON_NUMBER)>>,
                            <<Pair("file_path", FileP)>>,
                            <<Pair("file_path", FilePS)>>,
                            <<Pair("file_path", DirP)>>,
                            <<Pair("file_path", MainSlot(DirP))>>}}
    \cup {HookInput("Bash", tool_input, "t0") :
            tool_input \in {<<>>, NotAnObject,
                            <<Pair("command", <<CMD_RM, OPT_RF, DirP>>)>>,
                            <<Pair("command", <<CMD_RM, FileP, FilePS>>)>>}}

RobustSlots    == {MainSlot(DirP), LocalSlot(DirP), MainSlot(DirPS)}
RobustContents == {EmptyText, InvalidText, ValueText, ContentBlock,
                   ContentAgents}

InitRobust == GuardInit /\ MatchIdle /\ DecideIdle /\ CallIdle /\ TrackerIdle

NextRobust ==
    \/ \E input \in RobustInputs : GuardStart(input)
    \/ GuardCheckPath
    \/ GuardReap
    \/ \E slot \in RobustSlots : \E content \in RobustContents :
          WriteMarker(slot, content)
    \/ \E slot \in RobustSlots : RemoveMarker(slot)

SpecRobust == InitRobust /\ [][NextRobust]_vars

(***************************************************************************)
(* C16.  The guard never crashes.                                          *)
(***************************************************************************)
\* C16: for every stdin content and every content of the marker files it
\* reads, a run of the guard ends with exit code 0 and with stdout either
\* empty or holding exactly one block record.
C16_AlwaysExitsZero ==
    pc = "exited" =>
        /\ exit_code = 0
        /\ \/ stdout = <<>>
           \/ Len(stdout) = 1 /\ stdout[1].decision = "block"

(***************************************************************************)
(* The sub-agent tracker, subagent_tracker.py, one action per system call. *)
(* Each process handles one event and ends; the tracking file is the       *)
(* variable tracking, which the guard reads.  history lists the events in  *)
(* the order in which the processes were started.                          *)
(***************************************************************************)
MaxEvents == 3     \* tracker processes started in one behaviour

TRANSCRIPT == "/t/main.jsonl"
TrackerAgentIds   == {"a1", "a2"}
TrackerAgentTypes == {"", "Explore", "Plan"}

Event(hook_type, agent_id, agent_type, transcript_path) ==
    [json |-> "object", hook_type |-> hook_type, agent_id |-> agent_id,
     agent_type |-> agent_type, transcript_path |-> transcript_path]
\* stdin that is empty, malformed, or JSON that is no object
RawEvent(json) == [NoEvent EXCEPT !.json = json]

TrackerEvents ==
    {Event("SubagentStart", a, t, TRANSCRIPT) :
        a \in TrackerAgentIds, t \in TrackerAgentTypes}
    \cup {Event("SubagentStop", a, "", TRANSCRIPT) : a \in TrackerAgentIds}
    \cup {Event("SubagentStart", "", "Explore", TRANSCRIPT),
          Event("SubagentStop", "a1", "", ""),
          Event("Other", "a1", "Explore", TRANSCRIPT)}
RawEvents == {RawEvent("empty"), RawEvent("malformed"), RawEvent("value")}

guardRest == <<markers, pc, hook_input, cwd, paths_to_check, agent_state,
               stdout, exit_code>>

At(p, label) == t_pc' = [t_pc EXCEPT ![p] = label]
\* sys.exit(code), or the interpreter's exit after an uncaught exception
Finish(p, code) ==
    /\ At(p, "exited")
    /\ t_exit' = [t_exit EXCEPT ![p] = code]

\* main(), handle_start and handle_stop up to the first system call
TrackerMain(p, event) ==
    /\ t_pc[p] = "idle"
    /\ Len(history) < MaxEvents
    /\ t_event' = [t_event EXCEPT ![p] = event]
    /\ history' = Append(history, event)
    /\ IF event.json \in {"empty", "malformed"} THEN Finish(p, 0)
       \* line 154: data.get on a value that is no object, outside the try
       ELSE IF event.json = "value" THEN Finish(p, EXIT_UNCAUGHT)
       ELSE IF event.hook_type \notin {"SubagentStart", "SubagentStop"}
         THEN Finish(p, 0)
       ELSE IF event.agent_id = "" \/ event.transcript_path = ""
         THEN Finish(p, 0)
       ELSE /\ At(p, IF event.hook_type = "SubagentStart"
                       THEN "makedirs" ELSE "isfile")
            /\ UNCHANGED t_exit
    /\ UNCHANGED <<t_current, lock_owner, tracking, guardRest, harnessVars>>

\* line 76: os.makedirs(..., exist_ok=True)
MakeDirs(p) ==
    /\ t_pc[p] = "makedirs"
    /\ At(p, "open_lock")
    /\ UNCHANGED <<t_event, t_current, lock_owner, t_exit, history, tracking,
                   guardRest, harnessVars>>

\* lines 97-98: a stop without a tracking file does nothing
IsFile(p) ==
    /\ t_pc[p] = "isfile"
    /\ IF tracking.exists THEN At(p, "open_lock") /\ UNCHANGED t_exit
       ELSE Finish(p, 0)
    /\ UNCHANGED <<t_event, t_current, lock_owner, history, tracking,
                   guardRest, harnessVars>>

\* lines 80, 102: open(lock_path, "w")
OpenLock(p) ==
    /\ t_pc[p] = "open_lock"
    /\ At(p, "flock")
    /\ UNCHANGED <<t_event, t_current, lock_owner, t_exit, history, tracking,
                   guardRest, harnessVars>>

\* flock that returns at once, whoever holds the lock
LockFileNoWait(p) ==
    /\ t_pc[p] = "flock"
    /\ lock_owner' = p
    /\ At(p, "read")
    /\ UNCHANGED <<t_event, t_current, t_exit, history, tracking,
                   guardRest, harnessVars>>

\* _lock_file: fcntl.flock(f, LOCK_EX) returns when no other process holds
\* the lock
LockFile(p) ==
    /\ t_pc[p] = "flock"
    /\ lock_owner = NoProc
    /\ lock_owner' = p
    /\ At(p, "read")
    /\ UNCHANGED <<t_event, t_current, t_exit, history, tracking,
                   guardRest, harnessVars>>

\* _read_tracking_file: the map in the file, {} when there is no file
ReadMap == IF tracking.exists THEN tracking.agent_map ELSE <<>>

\* lines 84-85 and 104-105: the re-read and the change, in memory
Changed(map, event) ==
    IF event.hook_type = "SubagentStart"
      THEN MapUpdate(map, event.agent_id,
                     IF event.agent_type = "" THEN "unknown"
                     ELSE event.agent_type)
      ELSE MapPop(map, event.agent_id)

ReadTracking(p) ==
    /\ t_pc[p] = "read"
    /\ t_current' = [t_current EXCEPT ![p] = Changed(ReadMap, t_event[p])]
    /\ At(p, "open_tracking")
    /\ UNCHANGED <<t_event, lock_owner, t_exit, history, tracking,
                   guardRest, harnessVars>>

\* lines 87, 106: open(tracking_path, "w") creates or truncates the file
OpenTracking(p) ==
    /\ t_pc[p] = "open_tracking"
    /\ tracking' = [exists |-> TRUE, agent_map |-> <<>>]
    /\ At(p, "dump")
    /\ UNCHANGED <<t_event, t_current, lock_owner, t_exit, history,
                   guardRest, harnessVars>>

\* lines 88, 107: json.dump(current, f) and the close of the file
DumpTracking(p) ==
    /\ t_pc[p] = "dump"
    /\ tracking' = [exists |-> TRUE, agent_map |-> t_current[p]]
    /\ At(p, "unlock")
    /\ UNCHANGED <<t_event, t_current, lock_owner, t_exit, history,
                   guardRest, harnessVars>>

\* the finally clause, _unlock_file, and sys.exit(0) of main()
UnlockFile(p) ==
    /\ t_pc[p] = "unlock"
    /\ lock_owner' = IF lock_owner = p THEN NoProc ELSE lock_owner
    /\ Finish(p, 0)
    /\ UNCHANGED <<t_event, t_current, history, tracking, guardRest,
                   harnessVars>>

\* the process is gone; its record is cleared
TrackerReap(p) ==
    /\ t_pc[p] = "exited"
    /\ At(p, "idle")
    /\ t_event' = [t_event EXCEPT ![p] = NoEvent]
    /\ t_current' = [t_current EXCEPT ![p] = <<>>]
    /\ t_exit' = [t_exit EXCEPT ![p] = NoExit]
    /\ UNCHANGED <<lock_owner, history, tracking, guardRest, harnessVars>>

TrackerStep(p) ==
    \/ MakeDirs(p)
    \/ IsFile(p)
    \/ OpenLock(p)
    \/ LockFile(p)
    \/ ReadTracking(p)
    \/ OpenTracking(p)
    \/ DumpTracking(p)
    \/ UnlockFile(p)
    \/ TrackerReap(p)

InitTracker == GuardInit /\ MatchIdle /\ DecideIdle /\ CallIdle /\ TrackerIdle

\* concurrently running tracker processes
NextTracker ==
    \E p \in Procs :
        \/ \E event \in TrackerEvents : TrackerMain(p, event)
        \/ TrackerStep(p)

SpecTracker == InitTracker /\ [][NextTracker]_vars

\* one tracker process after the other
FirstProc == 1
NextTrackerSeq ==
    \/ \E event \in TrackerEvents : TrackerMain(FirstProc, event)
    \/ TrackerStep(FirstProc)

SpecTrackerSeq == InitTracker /\ [][NextTrackerSeq]_vars

Quiescent == \A p \in Procs : t_pc[p] \in {"idle", "exited"}
Registry  == IF tracking.exists THEN tracking.agent_map ELSE <<>>
RegistryPairs ==
    {<<Registry[i].agent_id, Registry[i].agent_type>> : i \in DOMAIN Registry}

\* an event that names an agent of the transcript
Names(event, a) ==
    /\ event.json = "object"
    /\ event.hook_type \in {"SubagentStart", "SubagentStop"}
    /\ event.agent_id = a
    /\ event.transcript_path = TRANSCRIPT

(***************************************************************************)
(* C18.  The registry after a sequential series of events.                 *)
(***************************************************************************)
\* the index in h of the most recent event that names agent a, 0 if none
LastEvent(h, a) ==
    LET idx == {i \in DOMAIN h : Names(h[i], a)}
    IN  IF idx = {} THEN 0 ELSE MaxOf(idx)

\* the agents whose most recent event is a start, with the type that start
\* gave, "unknown" when it gave none
LiveAgents(h) ==
    {<<a, IF h[LastEvent(h, a)].agent_type = "" THEN "unknown"
          ELSE h[LastEvent(h, a)].agent_type>> :
        a \in {b \in TrackerAgentIds :
                 /\ LastEvent(h, b) # 0
                 /\ h[LastEvent(h, b)].hook_type = "SubagentStart"}}

\* C18: after any sequential series of SubagentStart and SubagentStop
\* events for one transcript the registry maps exactly the agent_ids whose
\* most recent event is a start to the agent_type that start gave
\* ("unknown" when it gave none), each agent_id once.
C18_RegistryFollowsEvents ==
    Quiescent =>
        /\ RegistryPairs = LiveAgents(history)
        /\ Cardinality(RegistryPairs) = Len(Registry)

\* a1 was started without a type, a2 was started and stopped again
C18_Witness ==
    /\ Quiescent
    /\ history = <<Event("SubagentStart", "a1", "", TRANSCRIPT),
                   Event("SubagentStart", "a2", "Explore", TRANSCRIPT),
                   Event("SubagentStop", "a2", "", TRANSCRIPT)>>
    /\ Registry = <<[agent_id |-> "a1", agent_type |-> "unknown"]>>

(***************************************************************************)
(* C19.  Concurrent tracker processes.                                     *)
(***************************************************************************)
\* between the re-read and the rewrite of the tracking file
InCritical(p) == t_pc[p] \in {"read", "open_tracking", "dump", "unlock"}

\* the registry after the events of h, one after the other
RECURSIVE ApplyEvents(_, _)
ApplyEvents(map, h) ==
    IF h = <<>> THEN map
    ELSE ApplyEvents(
             IF \E a \in TrackerAgentIds : Names(Head(h), a)
               THEN Changed(map, Head(h)) ELSE map,
             Tail(h))

Orderings(h) ==
    {[i \in DOMAIN h |-> h[f[i]]] :
        f \in {g \in [DOMAIN h -> DOMAIN h] :
                 \A i, j \in DOMAIN h : g[i] = g[j] => i = j}}

MakeDirsFails(p) ==
    /\ t_pc[p] = "makedirs"
    /\ Finish(p, EXIT_UNCAUGHT)
    /\ UNCHANGED <<t_event, t_current, lock_owner, history, tracking,
                   guardRest, harnessVars>>

\* lines 80, 102: open(lock_path, "w") raises OSError, caught at 91, 111
OpenLockFails(p) ==
    /\ t_pc[p] = "open_lock"
    /\ Finish(p, 0)
    /\ UNCHANGED <<t_event, t_current, lock_owner, history, tracking,
                   guardRest, harnessVars>>

\* _lock_file, lines 37-38: flock raises OSError and the process goes on
\* without the lock
LockFileFails(p) ==
    /\ t_pc[p] = "flock"
    /\ At(p, "read")
    /\ UNCHANGED <<t_event, t_current, lock_owner, t_exit, history, tracking,
                   guardRest, harnessVars>>

\* _read_tracking_file, lines 69-71: a failed read is the empty map
ReadTrackingFails(p) ==
    /\ t_pc[p] = "read"
    /\ t_current' = [t_current EXCEPT ![p] = Changed(<<>>, t_event[p])]
    /\ At(p, "open_tracking")
    /\ UNCHANGED <<t_event, lock_owner, t_exit, history, tracking,
                   guardRest, harnessVars>>

\* lines 87, 106: open(tracking_path, "w") raises OSError; the finally
\* clause runs next
OpenTrackingFails(p) ==
    /\ t_pc[p] = "open_tracking"
    /\ At(p, "unlock")
    /\ UNCHANGED <<t_event, t_current, lock_owner, t_exit, history, tracking,
                   guardRest, harnessVars>>

\* a failing write that leaves the with-block without the finally clause:
\* the process ends and the lock stays taken
DumpTrackingFailsNoFinally(p) ==
    /\ t_pc[p] = "dump"
    /\ Finish(p, 0)
    /\ UNCHANGED <<t_event, t_current, lock_owner, history, tracking,
                   guardRest, harnessVars>>

\* lines 88, 107: the write raises OSError after the file was truncated
DumpTrackingFails(p) ==
    /\ t_pc[p] = "dump"
    /\ At(p, "unlock")
    /\ UNCHANGED <<t_event, t_current, lock_owner, t_exit, history, tracking,
                   guardRest, harnessVars>>

TrackerFault(p) ==
    \/ MakeDirsFails(p)
    \/ OpenLockFails(p)
    \/ LockFileFails(p)
    \/ ReadTrackingFails(p)
    \/ OpenTrackingFails(p)
    \/ DumpTrackingFails(p)

NextTrackerFaulty ==
    \/ \E event \in TrackerEvents \cup RawEvents :
          TrackerMain(FirstProc, event)
    \/ TrackerStep(FirstProc)
    \/ TrackerFault(FirstProc)

SpecTrackerFaulty == InitTracker /\ [][NextTrackerFaulty]_vars

(***************************************************************************)
(* C20.  The tracker always exits successfully.                            *)
(***************************************************************************)
\* C20: for every stdin content and for every failure of creating the
\* directory, locking, reading or writing, a tracker process ends with
\* exit code 0.
C20_TrackerExitsZero ==
    \A p \in Procs : t_pc[p] = "exited" => t_exit[p] = 0

(***************************************************************************)
(* The guard beside the tracker: sub-agents are started and stopped        *)
(* between and during runs of the guard on a file below a directory whose  *)
(* marker lists the agent type Explore; the directory above it may hold an *)
(* unscoped marker.                                                        *)
(***************************************************************************)
ResolveInputs ==
    {HookInput("Edit", <<Pair("file_path", FilePS)>>, u) :
        u \in {"", "t0", "t1", "t2"}}
    \cup {[HookInput("Edit", <<Pair("file_path", FilePS)>>, "t1")
              EXCEPT !.transcript_path = ""]}

InitResolve == GuardInit /\ MatchIdle /\ DecideIdle /\ CallIdle /\ TrackerIdle

NextResolve ==
    \/ \E input \in ResolveInputs : GuardStart(input)
    \/ GuardCheckPath
    \/ GuardReap
    \/ \E content \in {ContentAgents, EmptyText} :
          WriteMarker(MainSlot(DirPS), content)
    \/ \E content \in {Obj, ContentBlock} :
          WriteMarker(MainSlot(DirP), content)
    \/ \E slot \in {MainSlot(DirPS), MainSlot(DirP)} : RemoveMarker(slot)
    \/ \E a \in TrackerAgentIds, t \in AgentTypes : handle_start(a, t)
    \/ \E a \in TrackerAgentIds : handle_stop(a)

SpecResolve == InitResolve /\ [][NextResolve]_vars

(***************************************************************************)
(* C21.  Resolution of the invoking agent.                                 *)
(***************************************************************************)
\* the registered agents whose transcript file contains tool_use_id u
Holders(u) ==
    {i \in DOMAIN Registry : u \in SubagentTranscript(Registry[i].agent_id)}

\* the type the claim gives an invocation: that of the first registered
\* agent whose transcript contains u, the main agent when there is none or
\* when u or transcript_path is missing
TypeByRegistry(data) ==
    IF data.tool_use_id = "" \/ data.transcript_path = ""
       \/ Holders(data.tool_use_id) = {}
      THEN MAIN_AGENT
      ELSE Registry[MinOf(Holders(data.tool_use_id))].agent_type

\* a run on /p/s/a.t has ended, and /p/s/.block is {"agents": ["Explore"]},
\* the only marker file above the target
ScopedRunEnded ==
    /\ pc = "exited"
    /\ Sole(FilePS)
    /\ markers[MainSlot(DirPS)] = ContentAgents
    /\ MarkedChain(FilePS) = {DirPS}

BlocksAlone(d, p) ==
    test_should_block(p, [config |-> get_merged_dir_config(d).config,
                          marker_directory |-> d]).should_block

\* C24: when the scope of the marker file of /p/s exempts the invoking
\* agent, only that file is skipped: a marker file of /p whose scope
\* applies to the agent and whose policy blocks the target still vetoes.
C24_OnlyExemptFileSkipped ==
    (/\ pc = "exited" /\ Sole(FilePS)
     /\ Marked(DirPS) /\ ~AppliesToCaller(DirPS)
     /\ AppliesToCaller(DirP) /\ BlocksAlone(DirP, FilePS))
        => Vetoed

(***************************************************************************)
(* The guard below a hierarchy of blocked lists: /p holds .block and       *)
(* .block.local, /p/s holds .block; every list has one entry that carries  *)
(* a guide naming its file.                                                *)
(***************************************************************************)
OrderSlots == {MainSlot(DirP), LocalSlot(DirP), MainSlot(DirPS)}

\* the guide of the entry of each file: G in /p/.block, GE in
\* /p/.block.local, GT in /p/s/.block
SlotGuide(slot) ==
    CASE slot = MainSlot(DirP)  -> "G"
      [] slot = LocalSlot(DirP) -> "GE"
      [] OTHER                  -> "GT"

OrderContents(slot) ==
    {[Obj EXCEPT !.has_blocked = TRUE,
                 !.blocked = <<DictEntry(pat, SlotGuide(slot))>>] :
        pat \in {PAT_STAR_T, PAT_STAR_J}}

OrderInputs ==
    {HookInput("Edit", <<Pair("file_path", f)>>, "t0") : f \in {FileP, FilePS}}
    \cup {HookInput("Bash", <<Pair("command", <<CMD_RM, FileP, FilePS>>)>>,
                    "t0")}

InitOrder == GuardInit /\ MatchIdle /\ DecideIdle /\ CallIdle /\ TrackerIdle

NextOrder ==
    \/ \E input \in OrderInputs : GuardStart(input)
    \/ GuardCheckPath
    \/ GuardReap
    \/ \E slot \in OrderSlots : \E content \in OrderContents(slot) :
          WriteMarker(slot, content)
    \/ \E slot \in OrderSlots : RemoveMarker(slot)

SpecOrder == InitOrder /\ [][NextOrder]_vars

(***************************************************************************)
(* C22.  The order of the merged blocked list.                             *)
(***************************************************************************)
BlockedOf(slot) ==
    IF Present(slot) /\ markers[slot].kind = "object"
      THEN markers[slot].blocked ELSE <<>>

\* local before main in every directory, the closest directory first
RECURSIVE LocalFirstOrder(_)
LocalFirstOrder(dirs) ==
    IF dirs = <<>> THEN <<>>
    ELSE BlockedOf(LocalSlot(Head(dirs))) \o BlockedOf(MainSlot(Head(dirs)))
             \o LocalFirstOrder(Tail(dirs))

\* the guide of the first entry of that order that matches p
LocalFirstGuide(p) ==
    LET order == LocalFirstOrder(WalkUp(dirname(p)))
        c     == CHOOSE d \in Dirs : Closest(p, d)
    IN  IF MarkedChain(p) = {} \/ FirstMatch(order, p, c) = 0 THEN ""
        ELSE order[FirstMatch(order, p, c)].guide

\* C22: below a hierarchy of BlockList marker files the merged selectors
\* are ordered child-local, child-main, parent-local, parent-main, and the
\* first entry of that order that matches the target supplies the guide of
\* the veto.
C22_LocalBeforeMain ==
    \A p \in {FileP, FilePS} :
        (/\ pc = "exited" /\ Sole(p)
         /\ \A d \in MarkedChain(p) :
                Present(LocalSlot(d)) => Present(MainSlot(d))
         /\ LocalFirstGuide(p) # "")
            => stdout = <<Veto([template |-> "guide",
                                guide |-> LocalFirstGuide(p)])>>

(***************************************************************************)
(* C26.  Determinism of the guard.                                         *)
(***************************************************************************)
\* what the run that has ended wrote: its veto, None when it wrote nothing
Emitted == IF stdout = <<>> THEN None ELSE stdout[1]

\* C26: for a fixed input and a fixed filesystem every run of the guard
\* emits the same output: the output of the run that has ended is the only
\* one the evaluation of its input can end with.
C26_Deterministic ==
    (pc = "exited" /\ exit_code = 0 /\ ~QuickExit(hook_input))
        => FullEvaluation(hook_input) = {Emitted}

(***************************************************************************)
(* The guard below marker files that are missing or cannot be read.        *)
(***************************************************************************)
\* a marker file whose open() raises OSError (lines 184-188): the parser
\* returns the configuration it started with
Unreadable == [kind |-> "unreadable"]

FilePJ == <<"/", "p", "/", "a", ".", "j">>

LoneSlots == {MainSlot(DirP), LocalSlot(DirP), MainSlot(DirPS)}

LoneContents(slot) ==
    IF slot = LocalSlot(DirP) THEN {LocalBlock, ContentAllow}
    ELSE IF slot = MainSlot(DirP) THEN {Unreadable, LocalBlock}
    ELSE {Unreadable}

LoneInputs ==
    {HookInput("Edit", <<Pair("file_path", f)>>, "t0") :
        f \in {FileP, FilePJ, FilePS, FilePSJ}}

InitLone == GuardInit /\ MatchIdle /\ DecideIdle /\ CallIdle /\ TrackerIdle

NextLone ==
    \/ \E input \in LoneInputs : GuardStart(input)
    \/ GuardCheckPath
    \/ GuardReap
    \/ \E slot \in LoneSlots : \E content \in LoneContents(slot) :
          WriteMarker(slot, content)
    \/ \E slot \in LoneSlots : RemoveMarker(slot)

SpecLone == InitLone /\ [][NextLone]_vars

(***************************************************************************)
(* C23.  Missing and unreadable marker files.                              *)
(***************************************************************************)
\* the marker files of directory d that exist and can be read
ReadableSlots(d) ==
    {slot \in {MainSlot(d), LocalSlot(d)} :
        Present(slot) /\ markers[slot] # Unreadable}

\* what the policy parsed from the one readable marker file of d says of p
LonePolicyBlocks(p, d) ==
    LET slot == CHOOSE x \in ReadableSlots(d) : TRUE
    IN  test_should_block(p, [config |-> ParseContent(markers[slot]),
                              marker_directory |-> d]).should_block

\* C23: a marker file that is missing or unreadable contributes no policy:
\* below a single marked directory with one readable marker file the run is
\* vetoed exactly when the policy parsed from that file blocks the path,
\* and with no readable marker file it is not vetoed.
C23_AbsentContributesNothing ==
    \A p \in {FileP, FilePJ, FilePS, FilePSJ} : \A d \in Dirs :
        (pc = "exited" /\ Sole(p) /\ MarkedChain(p) = {d})
            => /\ ReadableSlots(d) = {} => Allowed
               /\ Cardinality(ReadableSlots(d)) = 1
                     => (Vetoed <=> LonePolicyBlocks(p, d))

(***************************************************************************)
(* The guard beside a running tracker: one tracker process after the       *)
(* other, step by step, while the guard runs on /p/s/a.t; the guard reads  *)
(* the tracking file without the lock.                                     *)
(***************************************************************************)
RaceEvents ==
    {Event("SubagentStart", a, t, TRANSCRIPT) :
        a \in TrackerAgentIds, t \in AgentTypes}
    \cup {Event("SubagentStop", a, "", TRANSCRIPT) : a \in TrackerAgentIds}

RaceInputs ==
    {HookInput("Edit", <<Pair("file_path", FilePS)>>, u) : u \in {"t1", "t2"}}

InitRace == GuardInit /\ MatchIdle /\ DecideIdle /\ CallIdle /\ TrackerIdle

NextRace ==
    \/ \E input \in RaceInputs : GuardStart(input)
    \/ GuardCheckPath
    \/ GuardReap
    \/ WriteMarker(MainSlot(DirPS), ContentAgents)
    \/ RemoveMarker(MainSlot(DirPS))
    \/ \E event \in RaceEvents : TrackerMain(FirstProc, event)
    \/ TrackerStep(FirstProc)

SpecRace == InitRace /\ [][NextRace]_vars

(***************************************************************************)
(* C25.  The guard's read of the tracking file during a rewrite.           *)
(***************************************************************************)
\* tracker p holds the lock and is rewriting the tracking file: it has
\* re-read the map and has not yet released the lock
Rewriting(p) ==
    /\ lock_owner = p
    /\ t_pc[p] \in {"open_tracking", "dump", "unlock"}

\* agent a was registered with type t before the rewrite of p began, and
\* the rewrite, which is about another agent, keeps it
KeptByRewrite(p, a, t) ==
    /\ t_event[p].agent_id # a
    /\ \E i \in DOMAIN t_current[p] :
          t_current[p][i] = [agent_id |-> a, agent_type |-> t]

\* C25: when the guard reads the tracking file while a tracker holds the
\* lock and rewrites it, every agent that was registered before the write
\* began and is not removed by it is resolved to its type: here agent a2,
\* the only one whose transcript contains t2.
C25_StaleReadAtWorst ==
    [][\A t \in AgentTypes :
          (/\ ~agent_state.resolved /\ agent_state'.resolved
           /\ hook_input.tool_use_id = "t2"
           /\ Rewriting(FirstProc)
           /\ KeptByRewrite(FirstProc, "a2", t))
              => agent_state'.type = t]_vars

(***************************************************************************)
(* The guard on paths that contain a ".." segment.                         *)
(***************************************************************************)
DOTDOT == <<".", ".">>

\* /p/s/../a.t, /p/s/../.block, /p/s/.. and, relative to /p, ../p/a.t
FileDots   == DirPS \o <<SLASH>> \o DOTDOT \o <<SLASH, "a", ".", "t">>
MarkerDots == DirPS \o <<SLASH>> \o DOTDOT \o <<SLASH>> \o MARKER_FILE_NAME
DirDots    == DirPS \o <<SLASH>> \o DOTDOT
RelDots    == DOTDOT \o FileP

DotPaths == {FileDots, MarkerDots, DirDots, RelDots}

DotsSlots == {MainSlot(DirP), LocalSlot(DirP), MainSlot(DirPS)}

DotsContents(slot) ==
    IF slot = MainSlot(DirP) THEN {Obj, ContentBlock, ContentAllow}
    ELSE IF slot = LocalSlot(DirP) THEN {LocalBlock}
    ELSE {Obj}

DotsInputs ==
    {HookInput("Edit", <<Pair("file_path", f)>>, "t0") :
        f \in DotPaths \cup {FileP}}
    \cup {HookInput("Bash", <<Pair("command", <<CMD_RM, OPT_RF, DirDots>>)>>,
                    "t0")}

InitDots == GuardInit /\ MatchIdle /\ DecideIdle /\ CallIdle /\ TrackerIdle

NextDots ==
    \/ \E input \in DotsInputs : GuardStart(input)
    \/ GuardCheckPath
    \/ GuardReap
    \/ \E slot \in DotsSlots : \E content \in DotsContents(slot) :
          WriteMarker(slot, content)
    \/ \E slot \in DotsSlots : RemoveMarker(slot)

SpecDots == InitDots /\ [][NextDots]_vars

SelfMerged ==
    /\ h_result # Unset
    /\ h_call.op = "merge_configs"
    /\ h_call.second = h_call.first

\* C28: the same-directory merger is idempotent on identical inputs:
\* merging a policy the parser can produce with itself yields that policy
\* (same mode, same selector list, same guide, same agent scope).
C28_SelfMergeIdempotent == SelfMerged => h_result = h_call.first

(***************************************************************************)
(* The dissector harness: a patch command is drawn and                     *)
(* get_bash_target_paths is applied to it.                                 *)
(***************************************************************************)
MaxArgs == 3     \* words after patch

PatchWords    == {OPT_I, OPT_D, OPT_O, OPT_R, FileP, FilePS}
PatchCommands == {<<CMD_PATCH>> \o a : a \in SeqsUpTo(PatchWords, MaxArgs)}
PatchCalls ==
    {[op |-> "get_bash_target_paths", first |-> c, second |-> None] :
        c \in PatchCommands}

InitPatch ==
    /\ GuardInit /\ MatchIdle /\ DecideIdle /\ TrackerIdle
    /\ h_call \in PatchCalls
    /\ h_result = Unset

ApplyDissect ==
    /\ h_call # None
    /\ h_call.op = "get_bash_target_paths"
    /\ h_result = Unset
    /\ h_result' = [paths |-> get_bash_target_paths(h_call.first)]
    /\ UNCHANGED <<h_call, guardVars, matchVars, decideVars, trackerVars>>

NextPatch == ApplyDissect

SpecPatch == InitPatch /\ [][NextPatch]_vars

(***************************************************************************)
(* C29.  The targets of a patch command.                                   *)
(***************************************************************************)
\* the rule of the claim, over the words after patch: a non-option word is
\* a target, -o gives its argument, -i and -d consume theirs
RECURSIVE TargetsByRule(_)
TargetsByRule(args) ==
    IF args = <<>> THEN {}
    ELSE IF Head(args) = OPT_O /\ Len(args) >= 2
      THEN {args[2]} \cup TargetsByRule(SubSeq(args, 3, Len(args)))
    ELSE IF Head(args) \in {OPT_I, OPT_D}
      THEN TargetsByRule(SubSeq(args, 3, Len(args)))
    ELSE IF StartsWith(Head(args), <<"-">>) THEN TargetsByRule(Tail(args))
    ELSE {Head(args)} \cup TargetsByRule(Tail(args))

\* C29: for a patch command the dissector returns the non-option words
\* and the argument of -o, and the arguments of -i and -d are consumed and
\* are not in the returned set (tokenizer pass and regex pass together).
C29_PatchTargets ==
    (h_result # Unset /\ h_call.op = "get_bash_target_paths")
        => h_result.paths = TargetsByRule(Tail(h_call.first))

(***************************************************************************)
(* Concurrent tracker processes with failing system calls, under fair      *)
(* scheduling: a process that can take a step eventually takes one (the    *)
(* kernel runs every runnable process, and flock returns once the lock is  *)
(* free).                                                                  *)
(***************************************************************************)
LiveEvents ==
    {Event("SubagentStart", "a1", "Explore", TRANSCRIPT),
     Event("SubagentStart", "a2", "Plan", TRANSCRIPT),
     Event("SubagentStop", "a1", "", TRANSCRIPT)}

NextTrackerLive ==
    \E p \in Procs :
        \/ \E event \in LiveEvents : TrackerMain(p, event)
        \/ TrackerStep(p)
        \/ TrackerFault(p)

SpecTrackerLive ==
    /\ InitTracker
    /\ [][NextTrackerLive]_vars
    /\ \A p \in Procs : WF_vars(TrackerStep(p) \/ TrackerFault(p))

=============================================================================
